---- MODULE Spec2Model ----
(***************************************************************************)
(* A model of the FlatCAM geometry-to-toolpath pipeline:                   *)
(*   - the asynchronous object jobs and their promises (fcObjects),        *)
(*   - the nearest-neighbour chaining passes over FlatCAMRTreeStorage,     *)
(*   - the G-code generators of CNCjob,                                    *)
(*   - the Gerber and the Excellon line parsers,                           *)
(*   - single functions of the library called on arguments of their own,   *)
(*   - the stack of two workers the jobs are handed to,                    *)
(*   - the shrink-and-trace clearing of a polygon (clear_polygon).         *)
(* Each part has its own variables and its own specification; a            *)
(* specification leaves the variables of the other parts at their idle     *)
(* values.                                                                 *)
(*                                                                         *)
(* Lengths are integers: coordinates are grid units, Z heights are in      *)
(* units of 10^-4 (what "%.4f" prints), feedrates in units of 10^-2 (what  *)
(* "%.2f" prints).  A G-code line is a triple <<template, a, b>>: the text *)
(* template of the line as the code writes it, and the (at most two)       *)
(* numbers formatted into it; where the text is read again (gcode_parse)   *)
(* the grid unit of X and Y is 10^-5, a tenth of the last digit written.   *)
(***************************************************************************)
EXTENDS Integers, Sequences, FiniteSets, TLC

VARIABLES
    \* ---- object jobs (fcObjects/geometry.py, fcObjects/excellon.py)
    promises,       \* app.collection: names promised and not yet resolved
    collection,     \* app.collection: names of the objects created
    inflight,       \* tasks emitted on worker_task and not yet run
    procs,          \* proc_container entries not yet done()
    jobLog          \* what the finished jobs reported: <<name, outcome>>

jobVars == <<promises, collection, inflight, procs, jobLog>>

VARIABLES
    \* ---- one invocation of a chaining pass or of a G-code generator
    \*      (fcCamlib/geometry.py, fcCamlib/cncjob.py, fcCamlib/fcTree.py)
    op,             \* the operation invoked
    inp,            \* its arguments and the attributes of self it reads
    pc,             \* position in the operation; "done", or the exception that escaped
    objects,        \* FlatCAMRTreeStorage.objects (NoObj where removed)
    rti,            \* the rtree index: entries [id, pt, obj]
    current_pt,     \* current_pt
    pt,             \* pt, the matched point returned by nearest()
    geo,            \* geo, the path in hand
    gcode,          \* self.gcode, a sequence of lines
    depth,          \* depth of the multi-depth loop
    reverse,        \* reverse flag of the multi-depth loop
    path_count,     \* path_count
    pathStart,      \* number of G-code lines written before the path in hand
    out             \* optimized_paths of paint_connect; tools/points of the drill
                    \* generator; gcode_parsed once the generated G-code is parsed

camVars == <<op, inp, pc, objects, rti, current_pt, pt, geo, gcode, depth,
             reverse, path_count, pathStart, out>>

\* The two parsers (fcCamlib/gerber.py, fcCamlib/excellon.py).
VARIABLES
    parser,     \* which parse_lines is running: "gerber", "excellon" or "none"
    gerber,     \* the Gerber document and the locals of Gerber.parse_lines
    excellon,   \* the Excellon document and the locals of Excellon.parse_lines
    line_num,   \* the local line_num of the running parse_lines
    status,     \* "parsing", "returned" or "raised"
    raised,     \* the exception parse_lines left with
    log,        \* the warnings and errors written to the log
    hist        \* history: how many lines were consumed, and the last of them

parseVars == <<parser, gerber, excellon, line_num, status, raised, log, hist>>

\* One call of a function of the library on arguments of its own.
VARIABLES
    call,       \* the function called, the object it is called on, its arguments
    ret         \* Pending until the call is over, then its outcome

fnVars == <<call, ret>>

\* The stack of workers (FlatCAMWorkerStack.py).
VARIABLES
    load,       \* WorkerStack.load: {worker name: tasks count}
    tasks       \* history: the tasks submitted, each with the worker named in
                \* the signal emitted for it and how far it got

stackVars == <<load, tasks>>

\* One call of Geometry.clear_polygon (fcCamlib/geometry.py).
VARIABLES
    clearing    \* the arguments of the call, its locals current and geoms,
                \* and where it is: "done", or the exception that escaped

clearVars == <<clearing>>

vars == <<jobVars, camVars, parseVars, fnVars, stackVars, clearVars>>

\* What the actions of one part leave unchanged.
jobOthers == <<camVars, parseVars, fnVars, stackVars, clearVars>>

camOthers == <<jobVars, parseVars, fnVars, stackVars, clearVars>>

parseOthers == <<jobVars, camVars, fnVars, stackVars, clearVars>>

fnOthers == <<jobVars, camVars, parseVars, stackVars, clearVars>>

stackOthers == <<jobVars, camVars, parseVars, fnVars, clearVars>>

clearOthers == <<jobVars, camVars, parseVars, fnVars, stackVars>>

(***************************************************************************)
(* Bounds of the model.                                                    *)
(***************************************************************************)
MaxInFlight == 2
MaxJobs == 3

(***************************************************************************)
(* Small helpers.                                                          *)
(***************************************************************************)
Last(s) == s[Len(s)]

Reverse(s) == [i \in 1..Len(s) |-> s[Len(s) + 1 - i]]

RemoveAt(s, i) == [k \in 1..(Len(s) - 1) |-> IF k < i THEN s[k] ELSE s[k + 1]]

(***************************************************************************)
(*                              OBJECT JOBS                                *)
(***************************************************************************)
ObjNames == {"a", "b"}

JobKinds == {"paint", "geo_cnc", "milling", "drill_cnc"}

Suffix(kind) ==
    CASE kind = "paint"     -> "_paint"
      [] kind = "geo_cnc"   -> "_cnc"
      [] kind = "milling"   -> "_mill"
      [] kind = "drill_cnc" -> "_cnc"

\* name = self.options["name"] + suffix
JobName(obj, kind) == <<obj, Suffix(kind)>>

\* The initializers that can raise: gen_paintarea (clear_polygon on a
\* polygon the tool does not fit in), the CNC-job initializers
\* (generate_from_geometry_2 on an empty geometry raises StopIteration,
\* generate_from_excellon_by_tool raises TypeError when sorting two tools).
MayRaise(kind) == kind \in {"paint", "geo_cnc", "drill_cnc"}

JobsIdle ==
    /\ promises = {}
    /\ collection = {}
    /\ inflight = <<>>
    /\ procs = 0
    /\ jobLog = <<>>

\* ObjectCollection.promise(name)
promise(name) == promises \cup {name}

\* App.new_object(kind, name, initialize) when the initializer returns:
\* the object is appended to the collection, which resolves its promise.
new_object_promises(name) == promises \ {name}

\* What a job_thread does with the promise when new_object raises.
job_failed_promises(name) == promises

CanDispatch == Len(inflight) < MaxInFlight /\ Len(jobLog) + Len(inflight) < MaxJobs

\* FlatCAMGeometry.paint_poly: no polygon under the click -> return;
\* otherwise proc_container.new, promise(name), worker_task.emit.
paint_poly(obj, found) ==
    /\ CanDispatch
    /\ IF ~found
         THEN UNCHANGED jobVars
         ELSE /\ procs' = procs + 1
              /\ promises' = promise(JobName(obj, "paint"))
              /\ inflight' = Append(inflight, [kind |-> "paint", name |-> JobName(obj, "paint")])
              /\ UNCHANGED <<collection, jobLog>>
    /\ UNCHANGED jobOthers

\* FlatCAMGeometry.generatecncjob: use_thread -> promise and emit;
\* otherwise new_object is called synchronously, without a promise.
generatecncjob(obj, use_thread, raises) ==
    /\ CanDispatch
    /\ IF use_thread
         THEN /\ promises' = promise(JobName(obj, "geo_cnc"))
              /\ inflight' = Append(inflight, [kind |-> "geo_cnc", name |-> JobName(obj, "geo_cnc")])
              /\ UNCHANGED <<collection, procs, jobLog>>
         ELSE /\ IF raises
                   THEN /\ promises' = job_failed_promises(JobName(obj, "geo_cnc"))
                        /\ UNCHANGED collection
                   ELSE /\ promises' = new_object_promises(JobName(obj, "geo_cnc"))
                        /\ collection' = collection \cup {JobName(obj, "geo_cnc")}
              /\ jobLog' = Append(jobLog, <<JobName(obj, "geo_cnc"),
                                            IF raises THEN "raised" ELSE "created">>)
              /\ UNCHANGED <<inflight, procs>>
    /\ UNCHANGED jobOthers

\* FlatCAMExcellon.generate_milling: no tools, or a hole smaller than the
\* milling tool -> return (False, msg); otherwise promise and emit.
generate_milling(obj, ntools, toosmall) ==
    /\ CanDispatch
    /\ IF ntools = 0 \/ toosmall
         THEN UNCHANGED jobVars
         ELSE /\ promises' = promise(JobName(obj, "milling"))
              /\ inflight' = Append(inflight, [kind |-> "milling", name |-> JobName(obj, "milling")])
              /\ UNCHANGED <<collection, procs, jobLog>>
    /\ UNCHANGED jobOthers

\* FlatCAMExcellon.on_create_cncjob_button_click
on_create_cncjob_button_click(obj, ntools) ==
    /\ CanDispatch
    /\ IF ntools = 0
         THEN UNCHANGED jobVars
         ELSE /\ promises' = promise(JobName(obj, "drill_cnc"))
              /\ inflight' = Append(inflight, [kind |-> "drill_cnc", name |-> JobName(obj, "drill_cnc")])
              /\ UNCHANGED <<collection, procs, jobLog>>
    /\ UNCHANGED jobOthers

\* A worker runs one emitted task (job_thread / geo_thread): new_object
\* either creates the object or its initializer raises.  paint_poly's
\* job_thread calls proc.done() on both paths and re-raises.
job_thread(i, raises) ==
    /\ i \in 1..Len(inflight)
    /\ raises => MayRaise(inflight[i].kind)
    /\ LET t == inflight[i] IN
         /\ inflight' = RemoveAt(inflight, i)
         /\ procs' = IF t.kind = "paint" THEN procs - 1 ELSE procs
         /\ jobLog' = Append(jobLog, <<t.name, IF raises THEN "raised" ELSE "created">>)
         /\ IF raises
              THEN /\ promises' = job_failed_promises(t.name)
                   /\ UNCHANGED collection
              ELSE /\ promises' = new_object_promises(t.name)
                   /\ collection' = collection \cup {t.name}
    /\ UNCHANGED jobOthers

JobsNext ==
    \/ \E obj \in ObjNames, found \in BOOLEAN : paint_poly(obj, found)
    \/ \E obj \in ObjNames, th \in BOOLEAN, r \in BOOLEAN : generatecncjob(obj, th, r)
    \/ \E obj \in ObjNames, n \in 0..1, small \in BOOLEAN : generate_milling(obj, n, small)
    \/ \E obj \in ObjNames, n \in 0..1 : on_create_cncjob_button_click(obj, n)
    \/ \E i \in 1..MaxInFlight, r \in BOOLEAN : job_thread(i, r)


(***************************************************************************)
(*                 FlatCAMRTreeStorage (fcCamlib/fcTree.py)                *)
(***************************************************************************)
\* A geometry object: its identity (id(obj)), its type and its coordinates.
NoObj == [id |-> 0, type |-> "None", coords |-> <<>>]

LineString(c) == [id |-> 0, type |-> "LineString", coords |-> c]

LinearRing(c) == [id |-> 0, type |-> "LinearRing", coords |-> c]

Point(p) == [id |-> 0, type |-> "Point", coords |-> <<p>>]

\* The objects of a list are distinct objects: the k-th has identity k.
Identify(shapes) == [k \in 1..Len(shapes) |-> [shapes[k] EXCEPT !.id = k]]

\* get_pts(o) = [o.coords[0], o.coords[-1]]
get_pts(o) == <<o.coords[1], o.coords[Len(o.coords)]>>

\* FlatCAMRTreeStorage.insert, for the k-th object: objects.append(obj) and
\* one index entry per point of get_pts(obj), ids counted from 0.
StorageInsert(st, obj) ==
    LET idx == Len(st.objects)
        n   == st.nextid
    IN [objects |-> Append(st.objects, obj),
        rti     |-> st.rti \cup {[id |-> n + i - 1, pt |-> get_pts(obj)[i], obj |-> idx + 1]
                                    : i \in 1..2},
        nextid  |-> n + 2]

RECURSIVE StorageOf(_)
\* The storage after inserting the shapes of a list in order.
StorageOf(shapes) ==
    IF shapes = <<>>
      THEN [objects |-> <<>>, rti |-> {}, nextid |-> 0]
      ELSE StorageInsert(StorageOf(SubSeq(shapes, 1, Len(shapes) - 1)), Last(shapes))

\* self.indexes[id(obj)]: objects are inserted in the order of their identities.
indexes(obj) == obj.id

\* FlatCAMRTreeStorage.remove(obj): objects[objidx] = None ...
StorageRemoveObjects(objs, obj) == [objs EXCEPT ![indexes(obj)] = NoObj]

\* StorageRemoveIndex that deletes whatever lies at the points of obj.
StorageRemoveIndex_ByPoints(index, obj) ==
    index \ {e \in index : \E i \in 1..2 : e.pt = get_pts(obj)[i]}

\* ... and remove_obj: rti.delete(id, point) for the points obj has now.
StorageRemoveIndex(index, obj) ==
    index \ {e \in index : e.obj = indexes(obj) /\ \E i \in 1..2 : e.pt = get_pts(obj)[i]}

Dist2(a, b) == (a[1] - b[1]) * (a[1] - b[1]) + (a[2] - b[2]) * (a[2] - b[2])

\* FlatCAMRTreeStorage.nearest(pt): the entries at minimal distance; the
\* index returns any one of them first.  Empty when next() raises
\* StopIteration.
Nearest(index, p) ==
    {e \in index : \A f \in index : Dist2(e.pt, p) <= Dist2(f.pt, p)}

(***************************************************************************)
(*                     G-code lines (fcCamlib/cncjob.py)                   *)
(***************************************************************************)
Ln(template, a, b) == <<template, a, b>>

\* CNCjob.defaults["coordinate_format"] behind "G00 " / "G01 "
G00XY(p) == Ln("G00 X%.4fY%.4f", p[1], p[2])

G01XY(p) == Ln("G01 X%.4fY%.4f", p[1], p[2])

G00Z(z) == Ln("G00 Z%.4f", z, 0)

G01Z(z) == Ln("G01 Z%.4f", z, 0)

Feed(f) == Ln("F%.2f", f, 0)

None == -999

\* M03, with S<rpm> when self.spindlespeed is not None
SpindleStart(self) ==
    IF self.spindlespeed # None THEN Ln("M03 S%d", self.spindlespeed, 0)
                                ELSE Ln("M03", 0, 0)

\* self.unitcode[self.units.upper()]
unitcode(units) == IF units = "IN" THEN Ln("G20", 0, 0) ELSE Ln("G21", 0, 0)

\* InitialGcode with the feed rate mode set before the positioning mode.
InitialGcode_FeedModeFirst(self) ==
    << unitcode(self.units), Ln("G94", 0, 0), Ln("G90", 0, 0), Feed(self.feedrate),
       G00Z(self.z_move), SpindleStart(self) >>

\* The initialization block both generators write.
InitialGcode(self) ==
    << unitcode(self.units), Ln("G90", 0, 0), Ln("G94", 0, 0), Feed(self.feedrate),
       G00Z(self.z_move), SpindleStart(self) >>

\* The lines generate_from_geometry_2 writes after the loop.
FinishGeometry(self) == << G00Z(self.z_move), Ln("G00 X0Y0", 0, 0), Ln("M05", 0, 0) >>

\* The lines generate_from_excellon_by_tool writes after the loop.
FinishExcellon(self) == << G00XY(<<0, 0>>), Ln("M05", 0, 0) >>

Collinear(a, b, c) ==
    (b[1] - a[1]) * (c[2] - a[2]) = (b[2] - a[2]) * (c[1] - a[1])

RECURSIVE Simplify(_)
\* linear.simplify(tolerance) for a tolerance below the grid step: interior
\* points on the straight line between their neighbours are dropped, the two
\* end points stay.
Simplify(c) ==
    IF Len(c) < 3 THEN c
    ELSE IF \E i \in 2..(Len(c) - 1) : Collinear(c[i - 1], c[i], c[i + 1]) /\ c[i - 1] # c[i + 1]
      THEN LET i == CHOOSE k \in 2..(Len(c) - 1) :
                       /\ Collinear(c[k - 1], c[k], c[k + 1]) /\ c[k - 1] # c[k + 1]
                       /\ \A m \in 2..(k - 1) :
                            ~(Collinear(c[m - 1], c[m], c[m + 1]) /\ c[m - 1] # c[m + 1])
           IN Simplify(RemoveAt(c, i))
      ELSE c

\* The plunge of linear2gcode / point2gcode: at self.zdownrate when set.
PlungeLines(self, zcut) ==
    IF self.zdownrate # None
      THEN << Feed(self.zdownrate), G01Z(zcut), Feed(self.feedrate) >>
      ELSE << G01Z(zcut) >>

\* UpLines that never lifts the tool.
UpLines_Never(self, up) == <<>>

\* The "Up to travelling height" line of linear2gcode.
UpLines(self, up) == IF up THEN << G00Z(self.z_move) >> ELSE <<>>

\* CNCjob.linear2gcode(linear, tolerance, zcut=zcut, up=up), down=True, cont=False
linear2gcode(self, linear, zcut, up) ==
    LET path == IF self.tolerance > 0 THEN Simplify(linear.coords) ELSE linear.coords
    IN  << G00XY(path[1]) >>
        \o PlungeLines(self, zcut)
        \o [i \in 1..(Len(path) - 1) |-> G01XY(path[i + 1])]
        \o UpLines(self, up)

\* CNCjob.point2gcode(point)
point2gcode(self, point) ==
    << G00XY(point.coords[1]) >> \o PlungeLines(self, self.z_cut) \o << G00Z(self.z_move) >>

IsLinear(g) == g.type \in {"LineString", "LinearRing"}

(***************************************************************************)
(*         CNCjob.generate_from_geometry_2 (fcCamlib/cncjob.py)            *)
(***************************************************************************)
\* ChainOrient that loses the matched point when it reverses.
ChainOrient_LosesPoint(g, p) ==
    IF p # g.coords[1] /\ p = g.coords[Len(g.coords)]
      THEN [g EXCEPT !.coords = Tail(Reverse(g.coords))]
      ELSE g

\* "pt != geo.coords[0] and pt == geo.coords[-1]": reverse the coordinates
ChainOrient(g, p) ==
    IF p # g.coords[1] /\ p = g.coords[Len(g.coords)]
      THEN [g EXCEPT !.coords = Reverse(g.coords)]
      ELSE g

\* lines 251-267: the initial G-code, then the first nearest(), which is
\* outside the try block.
G2_Begin ==
    /\ op = "generate_from_geometry_2" /\ pc = "begin"
    /\ gcode' = InitialGcode(inp)
    /\ pathStart' = Len(InitialGcode(inp))
    /\ IF Nearest(rti, <<0, 0>>) = {}
         THEN /\ pc' = "StopIteration"
              /\ UNCHANGED <<pt, geo>>
         ELSE \E e \in Nearest(rti, <<0, 0>>) :
                /\ pt' = e.pt
                /\ geo' = objects[e.obj]
                /\ pc' = "path"
    /\ UNCHANGED <<op, inp, objects, rti, current_pt, depth, reverse, path_count, out>>
    /\ UNCHANGED camOthers

\* lines 270-294 and 297-308: remove the path from the storage, orient it,
\* then cut it in one pass, or enter the multi-depth loop.
G2_Path ==
    /\ op = "generate_from_geometry_2" /\ pc = "path"
    /\ path_count' = path_count + 1
    /\ LET g == ChainOrient(geo, pt) IN
         /\ rti' = StorageRemoveIndex(rti, geo)
         /\ objects' = StorageRemoveObjects(objects, geo)
         /\ geo' = g
         /\ pathStart' = Len(gcode)
         /\ IF ~inp.multidepth
              THEN /\ gcode' = gcode \o (IF IsLinear(g)
                                           THEN linear2gcode(inp, g, inp.z_cut, TRUE)
                                           ELSE point2gcode(inp, g))
                   /\ pc' = "next"
                   /\ UNCHANGED <<depth, reverse>>
              ELSE /\ depth' = 0
                   /\ reverse' = FALSE
                   /\ pc' = "pass"
                   /\ UNCHANGED gcode
    /\ UNCHANGED <<op, inp, current_pt, pt, out>>
    /\ UNCHANGED camOthers

\* NextDepth without the clip at z_cut.
NextDepth_Unclipped(d, depthpercut, z_cut) == d - depthpercut

\* "depth -= depthpercut; if depth < z_cut: depth = z_cut"
NextDepth(d, depthpercut, z_cut) ==
    IF d - depthpercut < z_cut THEN z_cut ELSE d - depthpercut

\* PassReverse that keeps the direction of every pass.
PassReverse_Never(g) == g

\* lines 336-338: "if type(geo) == LineString: geo.coords = list(geo.coords)[::-1]"
PassReverse(g) == IF g.type = "LineString" THEN [g EXCEPT !.coords = Reverse(g.coords)] ELSE g

\* "if depthpercut is None: depthpercut = z_cut" (lines 303-304)
DepthPerCut(self) == IF self.depthpercut = None THEN self.z_cut ELSE self.depthpercut

\* The model follows a depth that rises above the surface this far.
MaxDepth == 4

\* lines 309-338: one iteration of "while depth > z_cut".
G2_Pass ==
    /\ op = "generate_from_geometry_2" /\ pc = "pass"
    /\ depth > inp.z_cut
    /\ depth < MaxDepth
    /\ LET d == NextDepth(depth, DepthPerCut(inp), inp.z_cut)
           g == geo
       IN /\ depth' = d
          /\ IF IsLinear(g)
               THEN /\ gcode' = gcode \o linear2gcode(inp, g, d, FALSE)
                    /\ pc' = "pass"
               ELSE /\ gcode' = gcode \o point2gcode(inp, g)
                    /\ pc' = "lift"
          /\ geo' = PassReverse(g)
          /\ reverse' = (reverse \/ g.type = "LineString")
    /\ UNCHANGED <<op, inp, objects, rti, current_pt, pt, path_count, pathStart, out>>
    /\ UNCHANGED camOthers

\* Revert that leaves the path as the last pass left it.
Revert_Never(g, reversed) == g

\* lines 341-343: "if reverse: if type(geo) == LineString: geo.coords = ...[::-1]"
Revert(g, reversed) ==
    IF reversed /\ g.type = "LineString" THEN [g EXCEPT !.coords = Reverse(g.coords)] ELSE g

\* lines 340-346: after the loop, "if reverse" reverses a LineString once
\* more, and the tool is lifted.
G2_Lift ==
    /\ op = "generate_from_geometry_2"
    /\ \/ pc = "lift"
       \/ pc = "pass" /\ ~(depth > inp.z_cut)
    /\ geo' = Revert(geo, reverse)
    /\ gcode' = Append(gcode, G00Z(inp.z_move))
    /\ pc' = "next"
    /\ UNCHANGED <<op, inp, objects, rti, current_pt, pt, depth, reverse, path_count, pathStart, out>>
    /\ UNCHANGED camOthers

\* lines 354-360: current_pt = geo.coords[-1] and the next nearest(), inside
\* the try block: StopIteration ends the loop.
G2_Next ==
    /\ op = "generate_from_geometry_2" /\ pc = "next"
    /\ LET c == Last(geo.coords) IN
         /\ current_pt' = c
         /\ IF Nearest(rti, c) = {}
              THEN /\ pc' = "finish"
                   /\ UNCHANGED <<pt, geo>>
              ELSE \E e \in Nearest(rti, c) :
                     /\ pt' = e.pt
                     /\ geo' = objects[e.obj]
                     /\ pc' = "path"
    /\ UNCHANGED <<op, inp, objects, rti, gcode, depth, reverse, path_count, pathStart, out>>
    /\ UNCHANGED camOthers

\* lines 364-367
G2_Finish ==
    /\ op = "generate_from_geometry_2" /\ pc = "finish"
    /\ gcode' = gcode \o FinishGeometry(inp)
    /\ pc' = "done"
    /\ UNCHANGED <<op, inp, objects, rti, current_pt, pt, geo, depth, reverse,
                   path_count, pathStart, out>>
    /\ UNCHANGED camOthers

(***************************************************************************)
(*      CNCjob.generate_from_excellon_by_tool (fcCamlib/cncjob.py)         *)
(***************************************************************************)
\* int(tool) of "T%d" % int(tool)
ToolNumber(name) == CASE name = "1" -> 1 [] name = "2" -> 2 [] OTHER -> 0

RECURSIVE SeqOfSet(_)
SeqOfSet(S) == IF S = {} THEN <<>> ELSE LET x == CHOOSE y \in S : TRUE
                                         IN <<x>> \o SeqOfSet(S \ {x})

\* sorted(exobj.tools.items(), key=lambda x: x[1]): the keys are the tools'
\* dictionaries {"C": dia}, which Python 3 cannot order: with two or more
\* tools the first comparison raises TypeError.
SortRaises(extools) == Cardinality(DOMAIN extools) >= 2

\* The tool names of sorted_tools when sorted() returns (at most one tool).
sorted_tools(extools) == SeqOfSet(DOMAIN extools)

\* selected_tools = filter(lambda i: i in selected_tools, selected_tools):
\* the lambda reads the name selected_tools when it is called, and by then
\* the name is bound to the filter object itself; the membership test runs
\* the same iterator to its end, so the filter yields nothing.
SelfFilter(selected) == SelectSeq(selected, LAMBDA i : FALSE)

\* lines 122-131: the list of tools to process
ToolsToProcess(extools, tools_arg) ==
    IF tools_arg = <<"all">>
      THEN sorted_tools(extools)
      ELSE LET st == sorted_tools(extools)
               sel == SelfFilter(tools_arg)
           IN SelectSeq(st, LAMBDA i : \E k \in 1..Len(sel) : sel[k] = i)

InSeq(x, q) == \E k \in 1..Len(q) : q[k] = x

\* lines 134-140: points[tool], the points of the drills of a tool, in
\* the order of exobj.drills
PointsOf(drills, tool) ==
    LET sel == SelectSeq(drills, LAMBDA d : d.tool = tool)
    IN [k \in 1..Len(sel) |-> sel[k].point]

\* lines 172-182: the tool change sequence
ToolChangeLines(self, tool) ==
    << G00Z(self.toolchangez), Ln("T%d", ToolNumber(tool), 0), Ln("M5", 0, 0),
       Ln("M6", 0, 0), Ln("(MSG, Change to tool dia=%.4f)", self.extools[tool], 0),
       Ln("M0", 0, 0), SpindleStart(self) >>

\* DrillLines without the move up to Z0.
DrillLines_NoUpToZero(self, p) ==
    << G00XY(p), G01Z(self.z_cut), G00Z(self.z_move) >>

\* lines 186-188: t % (x, y), then down + up_to_zero + up
DrillLines(self, p) ==
    << G00XY(p), G01Z(self.z_cut), Ln("G01 Z0", 0, 0), G00Z(self.z_move) >>

RECURSIVE Flatten(_)
Flatten(ss) == IF ss = <<>> THEN <<>> ELSE ss[1] \o Flatten(Tail(ss))

\* lines 166-188: what one tool of the list contributes
ToolLines(self, tool) ==
    LET pts == PointsOf(self.drills, tool) IN
    IF pts = <<>> THEN <<>>
    ELSE (IF self.toolchange THEN ToolChangeLines(self, tool) ELSE <<>>)
         \o Flatten([k \in 1..Len(pts) |-> DrillLines(self, pts[k])])

\* lines 121-162: sort, select, group, and the initial G-code
Ex_Begin ==
    /\ op = "generate_from_excellon_by_tool" /\ pc = "begin"
    /\ IF SortRaises(inp.extools)
         THEN /\ pc' = "TypeError"
              /\ UNCHANGED <<gcode, out>>
         ELSE /\ out' = ToolsToProcess(inp.extools, inp.tools)
              /\ gcode' = InitialGcode(inp)
              /\ pc' = "tool"
    /\ UNCHANGED <<op, inp, objects, rti, current_pt, pt, geo, depth, reverse,
                   path_count, pathStart>>
    /\ UNCHANGED camOthers

\* lines 166-188: one iteration of "for tool in tools"
Ex_Tool ==
    /\ op = "generate_from_excellon_by_tool" /\ pc = "tool"
    /\ path_count < Len(out)
    /\ path_count' = path_count + 1
    /\ pathStart' = Len(gcode)
    /\ gcode' = gcode \o ToolLines(inp, out[path_count + 1])
    /\ UNCHANGED <<op, inp, pc, objects, rti, current_pt, pt, geo, depth, reverse, out>>
    /\ UNCHANGED camOthers

\* lines 190-193
Ex_Finish ==
    /\ op = "generate_from_excellon_by_tool" /\ pc = "tool"
    /\ path_count = Len(out)
    /\ gcode' = gcode \o FinishExcellon(inp)
    /\ pc' = "done"
    /\ UNCHANGED <<op, inp, objects, rti, current_pt, pt, geo, depth, reverse,
                   path_count, pathStart, out>>
    /\ UNCHANGED camOthers

(***************************************************************************)
(*   CNCjob.gcode_parse (fcCamlib/cncjob.py).  X and Y are in units of     *)
(*   10^-5, so that the coordinate format "%.4f" keeps one digit less than *)
(*   a coordinate can have; Z heights and feed rates are counted in units  *)
(*   of the last decimal their formats write.                              *)
(***************************************************************************)
\* The fourth decimal of a coordinate
Res == 10

\* Round4 that keeps three decimals.
Round4_ThreeDecimals(v) == ((v + 5 * Res) \div (10 * Res)) * (10 * Res)

\* float("%.4f" % v): the nearest multiple of the fourth decimal (no value
\* explored lies half way between two of them)
Round4(v) == ((v + Res \div 2) \div Res) * Res

\* CNCjob.codes_split(gline): the words of the line, {letter: number}; a line
\* that does not begin with a letter and a number gives {}.
codes_split(gline) ==
    LET t == gline[1]
        a == gline[2]
        b == gline[3]
        XY == ("X" :> Round4(a)) @@ ("Y" :> Round4(b))
    IN CASE t = "G00 X%.4fY%.4f" -> ("G" :> 0) @@ XY
         [] t = "G01 X%.4fY%.4f" -> ("G" :> 1) @@ XY
         [] t = "G02 X%.4fY%.4f" -> ("G" :> 2) @@ XY
         [] t = "X%.4fY%.4f"     -> XY
         [] t = "G01 X%.4fZ%.4f" -> ("G" :> 1) @@ ("X" :> Round4(a)) @@ ("Z" :> b)
         [] t = "G00 X0Y0"       -> ("G" :> 0) @@ ("X" :> 0) @@ ("Y" :> 0)
         [] t = "G00 Z%.4f"      -> ("G" :> 0) @@ ("Z" :> a)
         [] t = "G01 Z%.4f"      -> ("G" :> 1) @@ ("Z" :> a)
         [] t = "G01 Z0"         -> ("G" :> 1) @@ ("Z" :> 0)
         [] t = "G20"            -> ("G" :> 20)
         [] t = "G21"            -> ("G" :> 21)
         [] t = "G90"            -> ("G" :> 90)
         [] t = "G94"            -> ("G" :> 94)
         [] t = "F%.2f"          -> ("F" :> a)
         [] t = "M03 S%d"        -> ("M" :> 3) @@ ("S" :> a)
         [] t = "M03"            -> ("M" :> 3)
         [] t \in {"M05", "M5"}  -> ("M" :> 5)
         [] t = "M6"             -> ("M" :> 6)
         [] t = "M0"             -> ("M" :> 0)
         [] t = "T%d"            -> ("T" :> a)
         [] OTHER                -> <<>>

Has(gobj, code) == code \in DOMAIN gobj

\* lines 396-406: kind, geometry, current and path before the first line
ParseStart(units) ==
    [kind |-> <<"C", "F">>, geometry |-> <<>>,
     current |-> ("X" :> 0) @@ ("Y" :> 0) @@ ("Z" :> 0) @@ ("G" :> 0),
     path |-> << <<0, 0>> >>, units |-> units, exc |-> "none"]

\* lines 425-428 and 472-474: the path in hand becomes a segment
StorePath(s) ==
    IF Len(s.path) > 1
      THEN [s EXCEPT !.geometry = Append(@, [geom |-> LineString(s.path), kind |-> s.kind]),
                     !.path = << Last(s.path) >>]
      ELSE s

\* StorePath at the lines where Z changes while X or Y is present only.
HeightLine_ChangeWithXY(s, gobj) ==
    IF Has(gobj, "Z")
      THEN LET s1 == [s EXCEPT !.current = ("Z" :> gobj["Z"]) @@ @]
           IN IF (Has(gobj, "X") \/ Has(gobj, "Y")) /\ gobj["Z"] # s.current["Z"]
                THEN StorePath(s1) ELSE s1
      ELSE s

\* lines 419-428: "if 'Z' in gobj"
HeightLine(s, gobj) ==
    IF Has(gobj, "Z")
      THEN StorePath([s EXCEPT !.current = ("Z" :> gobj["Z"]) @@ @])
      ELSE s

\* The kind of a move that is always a cut at feed rate.
MoveKind_Constant(current) == <<"C", "S">>

\* lines 445-450
MoveKind(current) ==
    << IF current["Z"] > 0 THEN "T" ELSE "C", IF current["G"] > 0 THEN "S" ELSE "F" >>

\* lines 433-463: "if 'X' in gobj or 'Y' in gobj".  An arc line without I
\* or J raises KeyError; with both, arc() of utils.py is called, which uses
\* cos and sin, names the module does not define: NameError.
MoveLine(s, gobj) ==
    IF Has(gobj, "X") \/ Has(gobj, "Y")
      THEN LET x == IF Has(gobj, "X") THEN gobj["X"] ELSE s.current["X"]
               y == IF Has(gobj, "Y") THEN gobj["Y"] ELSE s.current["Y"]
               s1 == [s EXCEPT !.kind = MoveKind(s.current)]
           IN IF s.current["G"] \in {0, 1} THEN [s1 EXCEPT !.path = Append(@, <<x, y>>)]
              ELSE IF s.current["G"] \in {2, 3}
                     THEN (IF Has(gobj, "I") /\ Has(gobj, "J")
                             THEN [s1 EXCEPT !.exc = "NameError"]
                             ELSE [s1 EXCEPT !.exc = "KeyError"])
                     ELSE s1
      ELSE s

\* lines 411-467: one iteration of "for line in StringIO(self.gcode)"
ParseLine(s, gline) ==
    LET gobj == codes_split(gline) IN
    IF Has(gobj, "G") /\ gobj["G"] \in {20, 21}
      THEN [s EXCEPT !.units = IF gobj["G"] = 20 THEN "IN" ELSE "MM"]
      ELSE LET s1 == HeightLine(s, gobj)
               s2 == IF Has(gobj, "G") THEN [s1 EXCEPT !.current = ("G" :> gobj["G"]) @@ @]
                                       ELSE s1
               s3 == MoveLine(s2, gobj)
           IN IF s3.exc # "none" THEN s3
              ELSE [s3 EXCEPT !.current = gobj @@ @]

RECURSIVE ParseLines(_, _)
ParseLines(s, lines) ==
    IF lines = <<>> \/ s.exc # "none" THEN s
    ELSE ParseLines(ParseLine(s, lines[1]), Tail(lines))

\* CNCjob.gcode_parse(): self.gcode_parsed and self.units afterwards
gcode_parse(self) ==
    LET s == ParseLines(ParseStart(self.units), self.gcode)
    IN IF s.exc # "none"
         THEN [exc |-> s.exc, gcode_parsed |-> <<>>, units |-> s.units]
         ELSE [exc |-> "none", gcode_parsed |-> StorePath(s).geometry, units |-> s.units]

\* job_obj.gcode_parse() after job_obj.generate_from_geometry_2(...)
\* (fcObjects/geometry.py): the G-code just generated is parsed.
G2_gcode_parse ==
    /\ op = "generate_from_geometry_2" /\ pc = "done"
    /\ out' = gcode_parse([units |-> inp.units, gcode |-> gcode]).gcode_parsed
    /\ pc' = "parsed"
    /\ UNCHANGED <<op, inp, objects, rti, current_pt, pt, geo, gcode, depth, reverse,
                   path_count, pathStart>>
    /\ UNCHANGED camOthers

(***************************************************************************)
(*             Geometry.paint_connect (fcCamlib/geometry.py)               *)
(***************************************************************************)
\* walk_cut.within(boundary) for a rectangular boundary [x0, y0, x1, y1]:
\* the connector buffered by tooldia / 2 lies within the rectangle exactly
\* when both of its end discs do.
WalkWithin(a, b, boundary, tooldia) ==
    \A q \in {a, b} :
        /\ 2 * boundary[1] + tooldia <= 2 * q[1] /\ 2 * q[1] <= 2 * boundary[3] - tooldia
        /\ 2 * boundary[2] + tooldia <= 2 * q[2] /\ 2 * q[2] <= 2 * boundary[4] - tooldia

\* max_walk = max_walk or 10 * tooldia
MaxWalk(self) == IF self.max_walk # None /\ self.max_walk # 0
                   THEN self.max_walk ELSE 10 * self.tooldia

\* CanWalk without the test of the corridor against the boundary.
CanWalk_LengthOnly(self, a, b) ==
    Dist2(a, b) < MaxWalk(self) * MaxWalk(self)

\* "walk_cut.within(boundary) and walk_path.length < max_walk"
CanWalk(self, a, b) ==
    /\ WalkWithin(a, b, self.boundary, self.tooldia)
    /\ Dist2(a, b) < MaxWalk(self) * MaxWalk(self)

\* lines 659-666: before the try block
PC_Begin ==
    /\ op = "paint_connect" /\ pc = "begin"
    /\ IF Nearest(rti, <<0, 0>>) = {}
         THEN /\ pc' = "StopIteration"
              /\ UNCHANGED <<objects, rti, current_pt, pt, geo>>
         ELSE \E e \in Nearest(rti, <<0, 0>>) :
                /\ pt' = e.pt
                /\ objects' = StorageRemoveObjects(objects, objects[e.obj])
                /\ rti' = StorageRemoveIndex(rti, objects[e.obj])
                /\ geo' = [objects[e.obj] EXCEPT !.type = "LineString"]
                /\ current_pt' = Last(objects[e.obj].coords)
                /\ pc' = "loop"
    /\ UNCHANGED <<op, inp, gcode, depth, reverse, path_count, pathStart, out>>
    /\ UNCHANGED camOthers

\* lines 669-713: one iteration of "while True", and the handler of
\* StopIteration, which inserts the path in hand and returns.
PC_Step ==
    /\ op = "paint_connect" /\ pc = "loop"
    /\ path_count' = path_count + 1
    /\ IF Nearest(rti, current_pt) = {}
         THEN /\ out' = Append(out, geo)
              /\ pc' = "done"
              /\ UNCHANGED <<objects, rti, current_pt, pt, geo>>
         ELSE \E e \in Nearest(rti, current_pt) :
                LET candidate == ChainOrient([objects[e.obj] EXCEPT !.type = "LineString"], e.pt)
                IN /\ pt' = e.pt
                   /\ objects' = StorageRemoveObjects(objects, objects[e.obj])
                   /\ rti' = StorageRemoveIndex(rti, objects[e.obj])
                   /\ IF CanWalk(inp, current_pt, e.pt)
                        THEN /\ geo' = [geo EXCEPT !.coords = geo.coords \o candidate.coords]
                             /\ UNCHANGED out
                        ELSE /\ out' = Append(out, geo)
                             /\ geo' = candidate
                   /\ current_pt' = Last(geo'.coords)
                   /\ pc' = "loop"
    /\ UNCHANGED <<op, inp, gcode, depth, reverse, pathStart>>
    /\ UNCHANGED camOthers

(***************************************************************************)
(* FlatCAMRTreeStorage used on its own (fcCamlib/fcTree.py): the objects   *)
(* of a list are inserted in order, and objects are removed and the        *)
(* nearest point is asked for in between.  pc is the last operation, out   *)
(* the history of the identities removed.                                  *)
(***************************************************************************)
\* FlatCAMRTreeStorage.get_objects()
get_objects(objs) == SelectSeq(objs, LAMBDA o : o # NoObj)

\* storage.insert(obj) for the next object of the list
St_insert ==
    /\ op = "storage" /\ pc # "StopIteration"
    /\ path_count < Len(inp.flat)
    /\ LET st == StorageInsert([objects |-> objects, rti |-> rti, nextid |-> 2 * Len(objects)],
                               inp.flat[path_count + 1])
       IN /\ objects' = st.objects
          /\ rti' = st.rti
    /\ path_count' = path_count + 1
    /\ pc' = "insert"
    /\ UNCHANGED <<op, inp, current_pt, pt, geo, gcode, depth, reverse, pathStart, out>>
    /\ UNCHANGED camOthers

\* storage.remove(obj) for an object that is in the storage
St_remove ==
    /\ op = "storage" /\ pc # "StopIteration"
    /\ \E k \in 1..Len(objects) :
         /\ objects[k] # NoObj
         /\ objects' = StorageRemoveObjects(objects, objects[k])
         /\ rti' = StorageRemoveIndex(rti, objects[k])
         /\ out' = Append(out, objects[k].id)
    /\ pc' = "remove"
    /\ UNCHANGED <<op, inp, current_pt, pt, geo, gcode, depth, reverse, path_count, pathStart>>
    /\ UNCHANGED camOthers

\* pt, geo = storage.nearest(current_pt), for a query point
St_nearest ==
    /\ op = "storage" /\ pc # "StopIteration"
    /\ \E p \in {<<0, 0>>, <<2, 1>>, <<1, 0>>} :
         /\ current_pt' = p
         /\ IF Nearest(rti, p) = {}
              THEN /\ pc' = "StopIteration"
                   /\ UNCHANGED <<pt, geo>>
              ELSE \E e \in Nearest(rti, p) :
                     /\ pt' = e.pt
                     /\ geo' = objects[e.obj]
                     /\ pc' = "nearest"
    /\ UNCHANGED <<op, inp, objects, rti, gcode, depth, reverse, path_count, pathStart, out>>
    /\ UNCHANGED camOthers

(***************************************************************************)
(*                   Gerber.parse_lines (fcCamlib/gerber.py)               *)
(*                                                                         *)
(* A line is given by what the regular expressions of the parser capture   *)
(* from it.  Coordinates are in units of 10^-frac_digits.  A shape is the  *)
(* set of grid points it covers, so that union and difference of shapes    *)
(* are union and difference of sets: the stroke of a path and the polygon  *)
(* of a contour cover the points of the path, a flash covers its point.    *)
(***************************************************************************)
\* last_path_aperture = None, current_aperture = None
NoAperture == "None"

\* What a handler leaves: the state, the exception it raised ("none" when it
\* did not raise) and the warnings it logged.
Ok(st) == [st |-> st, exc |-> "none", warn |-> {}]

Raise(st, e) == [st |-> st, exc |-> e, warn |-> {}]

Warned(r, w) == [r EXCEPT !.warn = @ \cup {w}]

\* "apid = str(int(apertureId))"
ApertureKey(token) == IF token = "010" THEN "10" ELSE token

\* Gerber.__init__ and the locals at the top of parse_lines.  drawn and pen
\* are history: every shape put into poly_buffer with the polarity in force
\* when it was drawn, and the polarity in force at the last pen-down point.
GerberNew(follow) ==
    [ follow |-> follow, apertures |-> {}, solid_geometry |-> {},
      path |-> <<>>, poly_buffer |-> <<>>,
      last_path_aperture |-> NoAperture, current_aperture |-> NoAperture,
      current_operation_code |-> None, current_x |-> None, current_y |-> None,
      current_polarity |-> "D", making_region |-> FALSE,
      drawn |-> <<>>, pen |-> "D" ]

HasNone(path) == \E i \in DOMAIN path : path[i][1] = None \/ path[i][2] = None

Cells(path) == {path[i] : i \in DOMAIN path}

\* "if not geo.is_empty: poly_buffer.append(geo)"
Buffered(st, shape, polarity) ==
    [st EXCEPT !.poly_buffer = Append(@, shape),
               !.drawn = Append(@, [shape |-> shape, polarity |-> polarity])]

\* "width = self.apertures[last_path_aperture]["size"]" and the stroke of the
\* path with that width (the path itself with follow).
BufferPath(st) ==
    IF st.last_path_aperture \notin st.apertures THEN Raise(st, "KeyError")
    ELSE IF HasNone(st.path) THEN Raise(st, "TypeError")
    ELSE Ok(Buffered(st, Cells(st.path), st.pen))

\* "Polygon(path)" of a region contour, nothing with follow ("Polygon()")
BufferRegion(st) ==
    IF st.follow THEN Ok(st)
    ELSE IF Len(st.path) < 3 THEN Raise(st, "ValueError")
    ELSE IF HasNone(st.path) THEN Raise(st, "TypeError")
    ELSE Ok(Buffered(st, Cells(st.path), st.pen))

\* create_flash_geometry(Point([current_x, current_y]), self.apertures[current_aperture])
BufferFlash(st) ==
    IF st.current_x = None \/ st.current_y = None THEN Raise(st, "TypeError")
    ELSE IF st.current_aperture \notin st.apertures THEN Raise(st, "KeyError")
    ELSE Ok(Buffered(st, {<<st.current_x, st.current_y>>}, st.current_polarity))

\* "path = [[current_x, current_y]]" after a step that did not raise
StartPath(r) ==
    IF r.exc # "none" THEN r
    ELSE [r EXCEPT !.st.path = << <<r.st.current_x, r.st.current_y>> >>]

\* "path = [path[-1]]" after a step that did not raise
KeepLast(r) ==
    IF r.exc # "none" THEN r
    ELSE [r EXCEPT !.st.path = << r.st.path[Len(r.st.path)] >>]

\* The path drawn so far goes to the buffer when it has more than one point.
FlushPath(st) == IF Len(st.path) > 1 THEN KeepLast(BufferPath(st)) ELSE Ok(st)

\* lines 514-594: the line matches lin_re
lin_handler(st0, l, n) ==
    LET st == [st0 EXCEPT !.current_x = IF l.x # None THEN l.x ELSE @,
                          !.current_y = IF l.y # None THEN l.y ELSE @,
                          !.current_operation_code = IF l.d # None THEN l.d ELSE @]
        op_code == st.current_operation_code
    IN CASE op_code = 1 ->
              Ok([st EXCEPT !.path = Append(@, <<st.current_x, st.current_y>>),
                            !.last_path_aperture = st.current_aperture,
                            !.pen = st.current_polarity])
         [] op_code = 2 ->
              IF Len(st.path) > 1
                THEN IF st.making_region
                       THEN StartPath(BufferRegion(st))
                       ELSE IF st.last_path_aperture = NoAperture
                              THEN Warned(StartPath(BufferPath(st)),
                                          [msg |-> "No aperture defined for curent path", line |-> n])
                              ELSE StartPath(BufferPath(st))
                ELSE StartPath(Ok(st))
         [] op_code = 3 ->
              LET r == IF Len(st.path) > 1 THEN StartPath(BufferPath(st)) ELSE StartPath(Ok(st))
              IN IF r.exc # "none" \/ st.follow THEN r ELSE BufferFlash(r.st)
         [] OTHER -> Ok(st)

\* lines 754-773: the line matches opcode_re
opcode_handler(st0, l, n) ==
    LET st == [st0 EXCEPT !.current_operation_code = l.d]
    IN IF l.d = 3 /\ ~st.follow THEN BufferFlash(st) ELSE Ok(st)

\* lines 785-802: G36
regionon_handler(st, l, n) ==
    LET r == FlushPath(st)
    IN IF r.exc # "none" THEN r ELSE Ok([r.st EXCEPT !.making_region = TRUE])

\* lines 805-835: G37
regionoff_handler(st0, l, n) ==
    LET st == [st0 EXCEPT !.making_region = FALSE]
    IN IF Len(st.path) < 3 THEN Ok(st) ELSE StartPath(BufferRegion(st))

\* lines 838-842 and aperture_parse, for a circular aperture
ad_handler(st, l, n) == Ok([st EXCEPT !.apertures = @ \cup {ApertureKey(l.id)}])

\* lines 855-875: "current_aperture = match.group(1)", then
\* "log.debug(self.apertures[current_aperture])"
tool_handler(st0, l, n) ==
    LET st == [st0 EXCEPT !.current_aperture = l.id]
    IN IF st.current_aperture \notin st.apertures THEN Raise(st, "KeyError")
       ELSE FlushPath(st)

UnionAll(shapes) == UNION {shapes[i] : i \in DOMAIN shapes}

\* "self.solid_geometry.union(...)" when dark, ".difference(...)" when clear
Combine(solid_geometry, polarity, shape) ==
    IF polarity = "D" THEN solid_geometry \cup shape ELSE solid_geometry \ shape

\* lines 881-908: %LPD*% or %LPC*%
lpol_handler(st, l, n) ==
    LET r == IF Len(st.path) > 1 /\ st.current_polarity # l.p
               THEN KeepLast(BufferPath(st)) ELSE Ok(st)
        s == r.st
    IN IF r.exc # "none" THEN r
       ELSE Ok([s EXCEPT
                  !.solid_geometry =
                      IF Len(s.poly_buffer) > 0
                        THEN Combine(@, s.current_polarity, UnionAll(s.poly_buffer)) ELSE @,
                  !.poly_buffer = <<>>,
                  !.current_polarity = l.p])

\* lines 941-957: a comment, or a line no pattern matches
ignored_handler(st, l, n) ==
    IF l.k = "comment" THEN Ok(st)
    ELSE Warned(Ok(st), [msg |-> "Line ignored", line |-> n])

\* lines 959-991: after the last line
eof_handler(st0) ==
    LET r == IF Len(st0.path) > 1 THEN BufferPath(st0) ELSE Ok(st0)
        st == r.st
    IN IF r.exc # "none" THEN r
       ELSE IF st.follow THEN Ok([st EXCEPT !.solid_geometry = UnionAll(st.poly_buffer)])
       ELSE Ok([st EXCEPT !.solid_geometry =
                               Combine(@, st.current_polarity, UnionAll(st.poly_buffer))])

\* GerberParseError without the line number.
GerberParseError_NoLine(n, err) == [type |-> "GerberParseError", line |-> None, cause |-> err]

\* lines 993-999: "raise GerberParseError("Line %d: %s" % (line_num, gline), repr(err))"
GerberParseError(n, err) == [type |-> "GerberParseError", line |-> n, cause |-> err]

NotRaised == [type |-> "none", line |-> None, cause |-> "none"]

NoHistory == [count |-> 0, last |-> [k |-> "none"]]

\* One turn of "for gline in glines" with its try/except.
GerberStep(r, l) ==
    /\ line_num' = line_num + 1
    /\ hist' = [count |-> hist.count + 1, last |-> l]
    /\ gerber' = r.st
    /\ IF r.exc = "none"
         THEN /\ log' = log \cup r.warn
              /\ UNCHANGED <<status, raised>>
         ELSE /\ log' = log \cup r.warn \cup {[msg |-> "PARSING FAILED", line |-> line_num + 1]}
              /\ status' = "raised"
              /\ raised' = GerberParseError(line_num + 1, r.exc)
    /\ UNCHANGED <<parser, excellon>>
    /\ UNCHANGED parseOthers

MaxLines == 5

\* The coordinate lines tried: X and Y with an operation code, or X alone
\* without one.
GerberCoords ==
    ({ <<0, 0>>, <<1, 0>>, <<1, 1>> } \X {1, 2, 3}) \cup { << <<1, None>>, None >> }

GerberParsing == parser = "gerber" /\ status = "parsing" /\ line_num < MaxLines

Gerber_Lin ==
    /\ GerberParsing
    /\ \E c \in GerberCoords :
         LET l == [k |-> "lin", x |-> c[1][1], y |-> c[1][2], d |-> c[2], id |-> "", p |-> ""]
         IN GerberStep(lin_handler(gerber, l, line_num + 1), l)

Gerber_Opcode ==
    /\ GerberParsing
    /\ \E d \in {1, 2, 3} :
         LET l == [k |-> "opcode", x |-> None, y |-> None, d |-> d, id |-> "", p |-> ""]
         IN GerberStep(opcode_handler(gerber, l, line_num + 1), l)

Gerber_RegionOn ==
    /\ GerberParsing
    /\ LET l == [k |-> "G36", x |-> None, y |-> None, d |-> None, id |-> "", p |-> ""]
       IN GerberStep(regionon_handler(gerber, l, line_num + 1), l)

Gerber_RegionOff ==
    /\ GerberParsing
    /\ LET l == [k |-> "G37", x |-> None, y |-> None, d |-> None, id |-> "", p |-> ""]
       IN GerberStep(regionoff_handler(gerber, l, line_num + 1), l)

Gerber_AD ==
    /\ GerberParsing
    /\ \E id \in {"10"} :
         LET l == [k |-> "AD", x |-> None, y |-> None, d |-> None, id |-> id, p |-> ""]
         IN GerberStep(ad_handler(gerber, l, line_num + 1), l)

Gerber_Tool ==
    /\ GerberParsing
    /\ \E id \in {"10", "010"} :
         LET l == [k |-> "tool", x |-> None, y |-> None, d |-> None, id |-> id, p |-> ""]
         IN GerberStep(tool_handler(gerber, l, line_num + 1), l)

Gerber_LPol ==
    /\ GerberParsing
    /\ \E p \in {"D", "C"} :
         LET l == [k |-> "LP", x |-> None, y |-> None, d |-> None, id |-> "", p |-> p]
         IN GerberStep(lpol_handler(gerber, l, line_num + 1), l)

Gerber_Ignored ==
    /\ GerberParsing
    /\ \E k \in {"comment", "unknown"} :
         LET l == [k |-> k, x |-> None, y |-> None, d |-> None, id |-> "", p |-> ""]
         IN GerberStep(ignored_handler(gerber, l, line_num + 1), l)

\* The input ends: lines 959-991, inside the same try.
Gerber_EOF ==
    /\ parser = "gerber" /\ status = "parsing"
    /\ LET r == eof_handler(gerber)
       IN /\ gerber' = r.st
          /\ IF r.exc = "none"
               THEN /\ status' = "returned"
                    /\ UNCHANGED <<raised, log>>
               ELSE /\ status' = "raised"
                    /\ raised' = GerberParseError(line_num, r.exc)
                    /\ log' = log \cup {[msg |-> "PARSING FAILED", line |-> line_num]}
    /\ hist' = [hist EXCEPT !.last = [k |-> "EOF"]]
    /\ UNCHANGED <<parser, excellon, line_num>>
    /\ UNCHANGED parseOthers

(***************************************************************************)
(*                 Excellon.parse_lines (fcCamlib/excellon.py)             *)
(*                                                                         *)
(* A coordinate token is absent, empty (the letter without digits), a run  *)
(* of digits (lz leading zeros, then ds digits of value v) or a decimal    *)
(* number (mantissa m with e decimals).  Lengths are in units of 10^-4.    *)
(***************************************************************************)
Absent == [form |-> "absent", lz |-> 0, ds |-> 0, v |-> 0]

Empty == [form |-> "empty", lz |-> 0, ds |-> 0, v |-> 0]

Digits(lz, ds, v) == [form |-> "digits", lz |-> lz, ds |-> ds, v |-> v]

Decimal(m, e) == [form |-> "decimal", lz |-> 0, ds |-> e, v |-> m]

RECURSIVE Pow10(_)
Pow10(n) == IF n = 0 THEN 1 ELSE 10 * Pow10(n - 1)

\* Excellon.__init__ and the locals at the top of parse_lines.  explicit is
\* history: the value of the last X and of the last Y written in a
\* coordinate record of the body; effect is what the last line did; mixed
\* tells that some record wrote one axis with and the other without a period.
\* A length is a number and the count of factors 25.4 it was multiplied
\* with: the scale of a drill point and of a tool diameter.  solid_geometry
\* is None until create_geometry builds the list of circles.
NoGeometry == [created |-> FALSE, polys |-> <<>>]

ExcellonNew ==
    [ cls |-> "Excellon",
      tools |-> <<>>, drills |-> <<>>, units |-> "in", zeros |-> "L",
      solid_geometry |-> NoGeometry,
      current_tool |-> "", in_header |-> FALSE, current_x |-> None, current_y |-> None,
      explicit |-> <<None, None>>, effect |-> "none", mixed |-> FALSE ]

\* str.upper() and str.lower() of a units tag
Upper(u) == IF u = "in" THEN "IN" ELSE IF u = "mm" THEN "MM" ELSE u

Lower(u) == IF u = "IN" THEN "in" ELSE IF u = "MM" THEN "mm" ELSE u

\* A decoder that would divide by 10000 whatever the format.
parse_number_FixedDivisor(self, tok) == tok.v

\* A decoder that would place the decimal point of metric numbers where
\* inch numbers have it.
parse_number_InchOnly(self, tok) ==
    IF self.zeros = "L" THEN tok.v * Pow10(6 - (tok.lz + tok.ds)) ELSE tok.v

\* Excellon.parse_number(number_str) for a run of digits
parse_number(self, tok) ==
    IF self.zeros = "L"
      THEN IF Lower(self.units) = "in" THEN tok.v * Pow10(6 - (tok.lz + tok.ds))
                                       ELSE tok.v * Pow10(7 - (tok.lz + tok.ds))
      ELSE IF Lower(self.units) = "in" THEN tok.v ELSE tok.v * 10

\* float(number_str) for a decimal number
float(tok) == tok.v * Pow10(4 - tok.ds)

\* What coordsnoperiod_re and coordsperiod_re capture from a record "X..Y..":
\* the first pattern matches where no period follows, the second captures
\* only numbers with a period.
coords_match(l) ==
    LET dotted(t) == t.form = "decimal"
        plain(t)  == t.form \in {"digits", "empty"}
    IN IF ~dotted(l.x) /\ ~dotted(l.y)
         THEN [re |-> "coordsnoperiod_re", x |-> l.x, y |-> l.y]
       ELSE IF plain(l.y)
         THEN [re |-> "coordsnoperiod_re", x |-> Absent, y |-> l.y]
       ELSE [re |-> "coordsperiod_re",
             x |-> IF dotted(l.x) THEN l.x ELSE Absent,
             y |-> IF dotted(l.y) THEN l.y ELSE Absent]

\* The value a record writes for an axis, None when it writes none.
Written(self, t) ==
    CASE t.form = "digits" -> parse_number(self, t)
      [] t.form = "decimal" -> float(t)
      [] OTHER -> None

\* lines 215-261: a coordinate record in the body
coords_handler(st, l, n) ==
    LET m == coords_match(l)
        x == IF m.x.form = "absent" THEN st.current_x
             ELSE IF m.re = "coordsnoperiod_re" THEN parse_number(st, m.x) ELSE float(m.x)
        y == IF m.y.form = "absent" THEN st.current_y
             ELSE IF m.re = "coordsnoperiod_re" THEN parse_number(st, m.y) ELSE float(m.y)
        s1 == [st EXCEPT !.current_x = x,
                         !.mixed = @ \/ {l.x.form, l.y.form} = {"digits", "decimal"},
                         !.explicit = << IF Written(st, l.x) # None THEN Written(st, l.x) ELSE @[1],
                                         IF Written(st, l.y) # None THEN Written(st, l.y) ELSE @[2] >>]
        s2 == [s1 EXCEPT !.current_y = y]
    IN IF m.x.form = "empty" THEN Raise(st, "ValueError")
       ELSE IF m.y.form = "empty" THEN Raise(s1, "ValueError")
       ELSE IF x = None \/ y = None
         THEN Warned(Ok([s2 EXCEPT !.effect = "skipped"]), [msg |-> "Missing coordinates", line |-> n])
       ELSE Ok([s2 EXCEPT !.drills = Append(@, [point |-> <<x, y>>, tool |-> s2.current_tool,
                                                scale |-> 0]),
                          !.effect = "drill"])

\* "str(int(match.group(1)))"
ToolName(token) == IF token = "01" THEN "1" ELSE token

\* self.tools[name] = spec
SetTool(tools, name, c) ==
    IF \E i \in DOMAIN tools : tools[i].name = name
      THEN [i \in DOMAIN tools |-> IF tools[i].name = name THEN [name |-> name, C |-> c, scale |-> 0]
                                                            ELSE tools[i]]
      ELSE Append(tools, [name |-> name, C |-> c, scale |-> 0])

\* A parser that would accept a tool definition in the body as well.
t_handler_DefinesAnywhere(st0, l, n) ==
    LET st == [st0 EXCEPT !.effect = "other"]
    IN IF l.c # None
         THEN Ok([st EXCEPT !.tools = SetTool(@, ToolName(l.n), l.c)])
       ELSE IF ~st.in_header
         THEN Ok([st EXCEPT !.current_tool = ToolName(l.n)])
       ELSE Warned(Ok(st), [msg |-> "Line ignored", line |-> n])

\* lines 209-213 in the body, lines 267-281 in the header: a line "T<n>" or
\* "T<n>C<diameter>"
t_handler(st0, l, n) ==
    LET st == [st0 EXCEPT !.effect = "other"]
    IN IF ~st.in_header
         THEN Ok([st EXCEPT !.current_tool = ToolName(l.n)])
       ELSE IF l.c = None
         THEN Warned(Ok(st), [msg |-> "Line ignored", line |-> n])
       ELSE Ok([st EXCEPT !.tools = SetTool(@, ToolName(l.n), l.c)])

\* lines 182-189: M48, and M95 or %
header_handler(st, l, n) == Ok([st EXCEPT !.in_header = (l.k = "M48"), !.effect = "other"])

\* Excellon.create_geometry: a circle of the tool's diameter at every drill,
\* in the order of the drills; "self.tools[drill['tool']]" raises KeyError at
\* the first drill whose tool is not in the table, the circles before it
\* stay in the list.
ToolDefined(tools, name) == \E i \in DOMAIN tools : tools[i].name = name

ToolNamed(tools, name) == tools[CHOOSE i \in DOMAIN tools : tools[i].name = name]

create_geometry(st) ==
    LET bad == {i \in DOMAIN st.drills : ~ToolDefined(st.tools, st.drills[i].tool)}
        upto == IF bad = {} THEN Len(st.drills)
                ELSE (CHOOSE i \in bad : \A j \in bad : i <= j) - 1
        poly(d) == [center |-> d.point, scale |-> d.scale,
                    tooldia |-> ToolNamed(st.tools, d.tool).C,
                    diascale |-> ToolNamed(st.tools, d.tool).scale]
        built == [st EXCEPT !.solid_geometry =
                     [created |-> TRUE, polys |-> [i \in 1..upto |-> poly(st.drills[i])]]]
    IN IF bad = {} THEN Ok(built) ELSE Raise(built, "KeyError")

\* Excellon.scale(factor), the factor being 25.4 ^ e: every drill point is
\* scaled about the origin, then the circles are built again.
scale(st, e) ==
    create_geometry([st EXCEPT !.drills = [i \in DOMAIN @ |-> [@[i] EXCEPT !.scale = @ + e]]])

\* Geometry.scale(factor) does nothing: "Override this method".
Geometry_scale(st, e) == Ok(st)

\* Gerber.scale(factor): solid_geometry is scaled about the origin, the
\* apertures and the data the geometry came from are not.
Gerber_scale(st, e) == Ok([st EXCEPT !.solid_geometry.scale = @ + e])

\* CNCjob.scale(factor): every path of gcode_parsed is scaled, then
\* create_geometry sets solid_geometry to their union; iterating
\* gcode_parsed raises TypeError while it is None.
CNCjob_scale(st, e) ==
    IF ~st.gcode_parsed.parsed THEN Raise(st, "TypeError")
    ELSE LET paths == [i \in DOMAIN st.gcode_parsed.paths |->
                          [st.gcode_parsed.paths[i] EXCEPT !.scale = @ + e]]
         IN Ok([st EXCEPT !.gcode_parsed.paths = paths,
                          !.solid_geometry = [created |-> TRUE, polys |-> paths]])

\* "self.scale(factor)": the method of the object's class
self_scale(st, e) ==
    CASE st.cls = "Excellon" -> scale(st, e)
      [] st.cls = "Gerber" -> Gerber_scale(st, e)
      [] st.cls = "CNCjob" -> CNCjob_scale(st, e)
      [] OTHER -> Geometry_scale(st, e)

\* A call's outcome with the value it returns.
Returning(r, v) == [st |-> r.st, exc |-> r.exc, warn |-> r.warn, ret |-> v]

\* Geometry.convert_units(units): the result carries the returned factor as
\* the exponent ret of 25.4, so ret = 0 is the factor 1.0.
Geometry_convert_units(st, units) ==
    IF Upper(units) = Upper(st.units)
      THEN Returning(Ok(st), 0)
    ELSE IF Upper(units) \notin {"MM", "IN"}
      THEN Returning(Warned(Ok(st), [msg |-> "Unsupported units", line |-> None]), 0)
    ELSE LET e == IF Upper(units) = "MM" THEN 1 ELSE -1
         IN Returning(self_scale([st EXCEPT !.units = units], e), e)

\* Excellon.convert_units(units)
convert_units(st, units) ==
    LET g == Geometry_convert_units(st, units)
        scaled == [g.st EXCEPT !.tools = [i \in DOMAIN @ |-> [@[i] EXCEPT !.scale = @ + g.ret]]]
    IN IF g.exc # "none" THEN g
       ELSE Returning(create_geometry(scaled), g.ret)

\* CNCjob.convert_units(units)
CNCjob_convert_units(st, units) ==
    LET g == Geometry_convert_units(st, units)
    IN IF g.exc # "none" THEN g
       ELSE Returning(Ok([g.st EXCEPT !.z_cut.scale = @ + g.ret, !.z_move.scale = @ + g.ret,
                                      !.feedrate.scale = @ + g.ret, !.tooldia.scale = @ + g.ret]),
                      g.ret)

\* "obj.convert_units(units)": the method of the object's class
self_convert_units(st, units) ==
    CASE st.cls = "Excellon" -> convert_units(st, units)
      [] st.cls = "CNCjob" -> CNCjob_convert_units(st, units)
      [] OTHER -> Geometry_convert_units(st, units)

\* lines 191-203: "M71" or "M72", in the header and in the body
meas_handler(st, l, n) ==
    convert_units([st EXCEPT !.effect = "other"], IF l.k = "M71" THEN "MM" ELSE "IN")

\* lines 284-293 in the header: "INCH" or "METRIC", alone or followed by
\* ",LZ" or ",TZ"; in the body no pattern matches the line
units_handler(st0, l, n) ==
    LET st == [st0 EXCEPT !.effect = "other"]
    IN IF st.in_header
         THEN convert_units([st EXCEPT !.zeros = IF l.z # "" THEN l.z ELSE @],
                            IF l.k = "INCH" THEN "IN" ELSE "MM")
         ELSE Warned(Ok(st), [msg |-> "Line ignored", line |-> n])

\* line 295: no pattern matches the line
unmatched_handler(st, l, n) ==
    Warned(Ok([st EXCEPT !.effect = "other"]), [msg |-> "Line ignored", line |-> n])

\* lines 299-301: "log.error("PARSING FAILED. Line %d: %s" ...); raise"
ExcellonReraise(n, err) == [type |-> err, line |-> None, cause |-> "none"]

\* One turn of "for eline in elines" with its try/except.
ExcellonStep(r, l) ==
    /\ line_num' = line_num + 1
    /\ hist' = [count |-> hist.count + 1, last |-> l]
    /\ excellon' = r.st
    /\ IF r.exc = "none"
         THEN /\ log' = log \cup r.warn
              /\ UNCHANGED <<status, raised>>
         ELSE /\ log' = log \cup r.warn \cup {[msg |-> "PARSING FAILED", line |-> line_num + 1]}
              /\ status' = "raised"
              /\ raised' = ExcellonReraise(line_num + 1, r.exc)
    /\ UNCHANGED <<parser, gerber>>
    /\ UNCHANGED parseOthers

XTokens == {Absent, Empty, Digits(1, 1, 1), Decimal(15, 1)}

YTokens == {Absent, Digits(1, 1, 1), Decimal(25, 1)}

ExcellonParsing == parser = "excellon" /\ status = "parsing" /\ line_num < MaxLines

ELine(k, x, y, n, c, z) == [k |-> k, x |-> x, y |-> y, n |-> n, c |-> c, z |-> z]

\* A record in the header matches no pattern of the header.
Excellon_Coords ==
    /\ ExcellonParsing
    /\ \E x \in XTokens, y \in YTokens :
         /\ x # Absent \/ y # Absent
         /\ LET l == ELine("coords", x, y, "", None, "")
            IN IF excellon.in_header
                 THEN ExcellonStep(unmatched_handler(excellon, l, line_num + 1), l)
                 ELSE ExcellonStep(coords_handler(excellon, l, line_num + 1), l)

Excellon_T ==
    /\ ExcellonParsing
    /\ \E n \in {"1", "01"}, c \in {None, 100} :
         LET l == ELine("T", Absent, Absent, n, c, "")
         IN ExcellonStep(t_handler(excellon, l, line_num + 1), l)

Excellon_Header ==
    /\ ExcellonParsing
    /\ \E k \in {"M48", "M95"} :
         LET l == ELine(k, Absent, Absent, "", None, "")
         IN ExcellonStep(header_handler(excellon, l, line_num + 1), l)

Excellon_Units ==
    /\ ExcellonParsing
    /\ \E k \in {"INCH", "METRIC"}, z \in {"T", ""} :
         LET l == ELine(k, Absent, Absent, "", None, z)
         IN ExcellonStep(units_handler(excellon, l, line_num + 1), l)

Excellon_Meas ==
    /\ ExcellonParsing
    /\ \E k \in {"M71", "M72"} :
         LET l == ELine(k, Absent, Absent, "", None, "")
         IN ExcellonStep(meas_handler(excellon, l, line_num + 1), l)

\* A line of no kind of the format: one without the letters X and Y, such
\* as "G90", and a comment that holds one of them, such as ";TYPE=PLATED".
\* Both patterns for coordinates are searched anywhere in a line of the
\* body, so the comment is taken for a record whose Y has no digits.
Excellon_Unmatched ==
    /\ ExcellonParsing
    /\ \E l \in {ELine("unknown", Absent, Absent, "", None, ""),
                  ELine("comment", Absent, Empty, "", None, "")} :
         IF ~excellon.in_header /\ (l.x # Absent \/ l.y # Absent)
           THEN ExcellonStep(coords_handler(excellon, l, line_num + 1), l)
           ELSE ExcellonStep(unmatched_handler(excellon, l, line_num + 1), l)

\* The input ends: line 297.
Excellon_EOF ==
    /\ parser = "excellon" /\ status = "parsing"
    /\ status' = "returned"
    /\ hist' = [hist EXCEPT !.last = [k |-> "EOF"]]
    /\ UNCHANGED <<parser, gerber, excellon, line_num, raised, log>>
    /\ UNCHANGED parseOthers

(***************************************************************************)
(*                 The invocations the model explores                      *)
(***************************************************************************)
MaxPaths == 2
MaxDrills == 2

Shapes ==
    { LineString(<< <<0, 1>>, <<1, 1>>, <<2, 1>> >>),
      LineString(<< <<2, 0>>, <<1, 0>> >>),
      LinearRing(<< <<1, 1>>, <<2, 1>>, <<2, 2>>, <<1, 1>> >>),
      LinearRing(<< <<12, 12>>, <<27, 12>>, <<27, 27>>, <<12, 27>>, <<12, 12>> >>),
      Point(<<2, 2>>) }

SeqsUpTo(S, n) == UNION {[1..k -> S] : k \in 0..n}

ZCuts == {-3, -2}
DepthsPerCut == {1, 2}
SpindleSpeeds == {None, 1000}
DownRates == {None, 50}

CamIdle ==
    /\ op = "none" /\ inp = <<>> /\ pc = "idle"
    /\ objects = <<>> /\ rti = {} /\ current_pt = <<0, 0>> /\ pt = <<0, 0>>
    /\ geo = NoObj /\ gcode = <<>> /\ depth = 0 /\ reverse = FALSE
    /\ path_count = 0 /\ pathStart = 0 /\ out = <<>>

\* The locals every invocation starts with.
CamLocals ==
    /\ pc = "begin" /\ current_pt = <<0, 0>> /\ pt = <<0, 0>>
    /\ geo = NoObj /\ gcode = <<>> /\ depth = 0 /\ reverse = FALSE
    /\ path_count = 0 /\ pathStart = 0 /\ out = <<>>

JobAttrs == [units : {"IN", "MM"}, z_cut : ZCuts, z_move : {1}, feedrate : {300},
             spindlespeed : SpindleSpeeds, zdownrate : DownRates]

InitGeometry2 ==
    /\ op = "generate_from_geometry_2"
    /\ \E flat \in SeqsUpTo(Shapes, MaxPaths), a \in JobAttrs, md \in BOOLEAN,
          dpc \in DepthsPerCut, tol \in {0, 1} :
         /\ inp = [flat |-> Identify(flat), units |-> a.units, z_cut |-> a.z_cut,
                   z_move |-> a.z_move, feedrate |-> a.feedrate,
                   spindlespeed |-> a.spindlespeed, zdownrate |-> a.zdownrate,
                   multidepth |-> md, depthpercut |-> dpc, tolerance |-> tol]
         /\ objects = StorageOf(Identify(flat)).objects
         /\ rti = StorageOf(Identify(flat)).rti
    /\ CamLocals

ExTools == { <<>>, [n \in {"1"} |-> 8], [n \in {"1", "2"} |-> IF n = "1" THEN 8 ELSE 5] }

Drills == [point : {<<1, 1>>, <<2, 0>>}, tool : {"1", "2", ""}]

InitExcellon ==
    /\ op = "generate_from_excellon_by_tool"
    /\ \E t \in ExTools, d \in SeqsUpTo(Drills, MaxDrills), sp \in SpindleSpeeds,
          u \in {"IN", "MM"}, sel \in {<<"all">>, <<"1">>, <<"2", "1">>}, tc \in BOOLEAN :
         inp = [extools |-> t, drills |-> d, tools |-> sel, toolchange |-> tc,
                toolchangez |-> 5, units |-> u, z_cut |-> -2, z_move |-> 1,
                feedrate |-> 300, spindlespeed |-> sp]
    /\ objects = <<>> /\ rti = {}
    /\ CamLocals

InitPaintConnect ==
    /\ op = "paint_connect"
    /\ \E flat \in SeqsUpTo({s \in Shapes : s.type # "Point"}, MaxPaths + 1),
          b \in {<< -1, -1, 3, 3 >>, << 0, -1, 3, 3 >>}, mw \in {None, 1} :
         /\ inp = [flat |-> Identify(flat), boundary |-> b, tooldia |-> 2, max_walk |-> mw]
         /\ objects = StorageOf(Identify(flat)).objects
         /\ rti = StorageOf(Identify(flat)).rti
    /\ CamLocals

\* The lists of objects put into a storage: paths with the same end points
\* among them, also the same path twice, as two objects.
StoredShapes ==
    { LineString(<< <<0, 1>>, <<1, 1>>, <<2, 1>> >>),
      LineString(<< <<0, 1>>, <<2, 1>> >>),
      LineString(<< <<2, 0>>, <<1, 0>> >>) }

InitStorage ==
    /\ op = "storage"
    /\ \E flat \in SeqsUpTo(StoredShapes, MaxPaths + 1) : inp = [flat |-> Identify(flat)]
    /\ objects = <<>> /\ rti = {}
    /\ CamLocals

\* Multi-depth jobs, also with depthpercut left out.
InitMultiDepth ==
    /\ op = "generate_from_geometry_2"
    /\ \E flat \in SeqsUpTo(Shapes, MaxPaths), zc \in ZCuts, dpc \in DepthsPerCut \cup {None},
          dr \in DownRates :
         /\ inp = [flat |-> Identify(flat), units |-> "MM", z_cut |-> zc, z_move |-> 1,
                   feedrate |-> 300, spindlespeed |-> None, zdownrate |-> dr,
                   multidepth |-> TRUE, depthpercut |-> dpc, tolerance |-> 0]
         /\ objects = StorageOf(Identify(flat)).objects
         /\ rti = StorageOf(Identify(flat)).rti
    /\ CamLocals

CamInit == InitGeometry2 \/ InitExcellon \/ InitPaintConnect \/ InitStorage

CamNext ==
    \/ G2_Begin \/ G2_Path \/ G2_Pass \/ G2_Lift \/ G2_Next \/ G2_Finish \/ G2_gcode_parse
    \/ Ex_Begin \/ Ex_Tool \/ Ex_Finish
    \/ PC_Begin \/ PC_Step
    \/ St_insert \/ St_remove \/ St_nearest

\* No parser is running.
ParseIdle ==
    /\ parser = "none" /\ gerber = GerberNew(FALSE) /\ excellon = ExcellonNew
    /\ line_num = 0 /\ status = "idle" /\ raised = NotRaised /\ log = {} /\ hist = NoHistory

\* No single function is being called.
Pending == [done |-> FALSE]

FnIdle == call = [fn |-> "none"] /\ ret = Pending

\* No stack of workers was made.
StackIdle == load = <<>> /\ tasks = <<>>

\* clear_polygon is not being called.
ClearIdle ==
    clearing = [pc |-> "idle", polygon |-> <<>>, tooldia |-> 0, overlap |-> 0, iterable |-> TRUE,
                current |-> [inset |-> 0, pieces |-> <<>>], geoms |-> <<>>]

InitCam == CamInit /\ JobsIdle /\ ParseIdle /\ FnIdle /\ StackIdle /\ ClearIdle

SpecCam == InitCam /\ [][CamNext]_vars

\* generate_from_geometry_2 alone, in multi-depth mode.  The method runs in
\* one thread and nothing suspends it: every step that can be taken is taken.
Geometry2Next == G2_Begin \/ G2_Path \/ G2_Pass \/ G2_Lift \/ G2_Next \/ G2_Finish

InitMultiDepthSpec == InitMultiDepth /\ JobsIdle /\ ParseIdle /\ FnIdle /\ StackIdle /\ ClearIdle

SpecMultiDepth == InitMultiDepthSpec /\ [][Geometry2Next]_vars /\ WF_vars(Geometry2Next)

InitJobs == JobsIdle /\ CamIdle /\ ParseIdle /\ FnIdle /\ StackIdle /\ ClearIdle

SpecJobs == InitJobs /\ [][JobsNext]_vars

\* parse_lines of a new Gerber document, with or without follow, or of a new
\* Excellon document, is called.
InitParse ==
    /\ JobsIdle /\ CamIdle /\ FnIdle /\ StackIdle /\ ClearIdle
    /\ parser \in {"gerber", "excellon"}
    /\ gerber \in {GerberNew(follow) : follow \in IF parser = "gerber" THEN BOOLEAN ELSE {FALSE}}
    /\ excellon = ExcellonNew
    /\ line_num = 0 /\ status = "parsing" /\ raised = NotRaised /\ log = {} /\ hist = NoHistory

ParseNext ==
    \/ Gerber_Lin \/ Gerber_Opcode \/ Gerber_RegionOn \/ Gerber_RegionOff \/ Gerber_AD
    \/ Gerber_Tool \/ Gerber_LPol \/ Gerber_Ignored \/ Gerber_EOF
    \/ Excellon_Coords \/ Excellon_T \/ Excellon_Header \/ Excellon_Units \/ Excellon_Meas
    \/ Excellon_Unmatched \/ Excellon_EOF

SpecParse == InitParse /\ [][ParseNext]_vars

\* The coordinate tokens without period given to parse_number: up to
\* MaxZeros leading zeros, then up to MaxDigits digits, with or without sign;
\* six digits in all at most, the length of the 2:4 and 3:3 formats.
MaxZeros == 3
MaxDigits == 3

NumberTokens ==
    { Digits(lz, ds, sg * v) :
        lz \in 0..MaxZeros, ds \in 0..MaxDigits, sg \in {1, -1}, v \in {0, 1, 7, 12, 40, 125, 900} }
    \cap { t \in [form : {"digits"}, lz : 0..MaxZeros, ds : 0..MaxDigits, v : -999..999] :
             /\ t.lz + t.ds >= 1 /\ t.lz + t.ds <= 6
             /\ IF t.ds = 0 THEN t.v = 0
                ELSE (IF t.v < 0 THEN -t.v ELSE t.v) \in Pow10(t.ds - 1)..(Pow10(t.ds) - 1) }

InitParseNumber ==
    \E z \in {"L", "T"}, u \in {"in", "IN", "MM"}, t \in NumberTokens :
        call = [fn |-> "parse_number", self |-> [ExcellonNew EXCEPT !.zeros = z, !.units = u],
                number_str |-> t]

Call_parse_number ==
    /\ call.fn = "parse_number" /\ ret = Pending
    /\ ret' = [done |-> TRUE, value |-> parse_number(call.self, call.number_str)]
    /\ UNCHANGED call
    /\ UNCHANGED fnOthers

\* The documents convert_units is called on: a Geometry, a parsed Gerber,
\* a CNCjob before and after its G-code was parsed, and Excellon documents
\* with and without tool table, drills and circles built.
MaxCalls == 3

Quantity(v) == [v |-> v, scale |-> 0]

Documents ==
    { [cls |-> "Geometry", units |-> u, solid_geometry |-> NoGeometry] : u \in {"in", "MM"} }
    \cup { [cls |-> "Gerber", units |-> u, solid_geometry |-> [shape |-> "union", scale |-> 0]] :
             u \in {"in", "MM"} }
    \cup { [cls |-> "CNCjob", units |-> u, solid_geometry |-> NoGeometry, gcode_parsed |-> gp,
            z_cut |-> Quantity(-20), z_move |-> Quantity(1000), feedrate |-> Quantity(30000),
            tooldia |-> Quantity(160)] :
             u \in {"in", "IN", "MM"},
             gp \in {[parsed |-> FALSE, paths |-> <<>>],
                     [parsed |-> TRUE, paths |-> << [geom |-> "path", scale |-> 0] >>]} }
    \cup { d \in { [ExcellonNew EXCEPT !.units = u, !.tools = t, !.drills = ds, !.solid_geometry = g] :
                     u \in {"in", "IN", "MM"},
                     t \in {<<>>, << [name |-> "1", C |-> 100, scale |-> 0] >>},
                     ds \in SeqsUpTo({[point |-> <<10000, 10000>>, tool |-> n, scale |-> 0] :
                                         n \in {"1", ""}}, MaxDrills),
                     g \in {NoGeometry} \cup
                           {[created |-> TRUE,
                             polys |-> [i \in 1..k |-> [center |-> <<10000, 10000>>, scale |-> 0,
                                                        tooldia |-> 100, diascale |-> 0]]] :
                               k \in 0..MaxDrills} } :
             \* circles can have been built only as create_geometry builds them
             d.solid_geometry.created =>
                 /\ create_geometry(d).exc = "none"
                 /\ create_geometry(d).st = d }

InitConvertUnits ==
    \E d \in Documents, u \in {"IN", "MM", "in", "mm", "CM"} :
        call = [fn |-> "convert_units", self |-> d, units |-> u, before |-> d]

\* One more call of convert_units on the same object with the same units.
Call_convert_units ==
    /\ call.fn = "convert_units"
    /\ IF ret = Pending THEN TRUE ELSE ret.exc = "none" /\ ret.calls < MaxCalls
    /\ LET r == self_convert_units(call.self, call.units)
       IN /\ call' = [call EXCEPT !.self = r.st]
          /\ ret' = [done |-> TRUE, calls |-> (IF ret = Pending THEN 1 ELSE ret.calls + 1),
                     value |-> r.ret, exc |-> r.exc]
    /\ UNCHANGED fnOthers

(***************************************************************************)
(* Aperture macros (fcCamlib/aperture.py).  The text of a macro is a       *)
(* sequence of characters; a number that replaced a variable reference is  *)
(* one item Num(n), the text str(n).                                       *)
(***************************************************************************)
Ch(c) == [ch |-> c, val |-> 0]

Num(n) == [ch |-> "#", val |-> n]

DigitChars == <<"0", "1", "2", "3", "4", "5", "6", "7", "8", "9">>

DigitVal(item) == (CHOOSE i \in 1..10 : DigitChars[i] = item.ch) - 1

IsDigit(item) == \E i \in 1..10 : DigitChars[i] = item.ch

\* "[0-9a-zA-Z]": the letters of the model are a and b; the text of a number
\* begins with a digit.
IsAlnum(item) == IsDigit(item) \/ item.ch \in {"a", "b", "#"}

\* str(i) of a variable index
Str(n) ==
    IF n < 10 THEN << DigitChars[n + 1] >>
    ELSE << DigitChars[(n \div 10) + 1], DigitChars[(n % 10) + 1] >>

Text(chars) == [i \in DOMAIN chars |-> Ch(chars[i])]

\* The reference "$<name>" and the literal made of digits
Ref(name) == << Ch("$") >> \o Text(name)

\* r'\$' + str(v) + r'(?![0-9a-zA-Z])' matches at the head of the text
MatchesVar(text, name) ==
    /\ Len(text) >= Len(name) + 1
    /\ SubSeq(text, 1, Len(name) + 1) = Ref(name)
    /\ Len(text) > Len(name) + 1 => ~IsAlnum(text[Len(name) + 2])

\* re.sub(pattern of the variable, str(value), text)
RECURSIVE SubVar(_, _, _)
SubVar(text, name, val) ==
    IF text = <<>> THEN <<>>
    ELSE IF MatchesVar(text, name)
      THEN << Num(val) >> \o SubVar(SubSeq(text, Len(name) + 2, Len(text)), name, val)
    ELSE << Head(text) >> \o SubVar(Tail(text), name, val)

\* "for v in self.locvars: ... re.sub": locvars is the sequence of the
\* bindings in the order the names were first bound
RECURSIVE SubLocvars(_, _)
SubLocvars(text, locvars) ==
    IF locvars = <<>> THEN text
    ELSE SubLocvars(SubVar(text, Head(locvars).name, Head(locvars).val), Tail(locvars))

\* re.sub(r'\$[0-9a-zA-Z](?![0-9a-zA-Z])', "0", text): "Make all others 0"
RECURSIVE ZeroOthers(_)
ZeroOthers(text) ==
    IF text = <<>> THEN <<>>
    ELSE IF /\ Len(text) >= 2 /\ text[1] = Ch("$") /\ IsAlnum(text[2]) /\ text[2].ch # "#"
            /\ Len(text) > 2 => ~IsAlnum(text[3])
      THEN << Num(0) >> \o ZeroOthers(SubSeq(text, 3, Len(text)))
    ELSE << Head(text) >> \o ZeroOthers(Tail(text))

\* eval(text) of the texts of the model: digits are a literal, a number is
\* itself, and digits 0 after a number are further decimals of it; a text
\* that still holds "$" or a letter is no expression.
RECURSIVE Literal(_)
Literal(text) == IF text = <<>> THEN 0 ELSE 10 * Literal(SubSeq(text, 1, Len(text) - 1))
                                             + DigitVal(text[Len(text)])

eval(text) ==
    IF text # <<>> /\ \A i \in DOMAIN text : IsDigit(text[i])
      THEN [exc |-> "none", val |-> Literal(text)]
    ELSE IF /\ text # <<>> /\ text[1].ch = "#"
            /\ \A i \in 2..Len(text) : text[i] = Ch("0")
      THEN [exc |-> "none", val |-> text[1].val]
    ELSE [exc |-> IF \E i \in DOMAIN text : text[i].ch \in {"a", "b"}
                    THEN "NameError" ELSE "SyntaxError",
          val |-> 0]

\* self.locvars[var] = value
SetVar(locvars, name, val) ==
    IF \E i \in DOMAIN locvars : locvars[i].name = name
      THEN [i \in DOMAIN locvars |-> IF locvars[i].name = name THEN [name |-> name, val |-> val]
                                                               ELSE locvars[i]]
      ELSE Append(locvars, [name |-> name, val |-> val])

\* The parts of a macro: a comment "0 ...", a definition "$<name>=<text>", a
\* primitive "<text>,<text>,..." and a part of unknown syntax.
Comment == [k |-> "comment", name |-> <<>>, text |-> <<>>, elements |-> <<>>]

Variable(name, text) == [k |-> "var", name |-> name, text |-> text, elements |-> <<>>]

Primitive(elements) == [k |-> "prim", name |-> <<>>, text |-> <<>>, elements |-> elements]

Other == [k |-> "other", name |-> <<>>, text |-> <<>>, elements |-> <<>>]

\* [eval(x) for x in elements]: the first element that is no expression
\* raises
EvalAll(texts) ==
    LET bad == {i \in DOMAIN texts : eval(texts[i]).exc # "none"}
    IN IF bad = {} THEN [exc |-> "none", vals |-> [i \in DOMAIN texts |-> eval(texts[i]).val]]
       ELSE [exc |-> eval(texts[CHOOSE i \in bad : \A j \in bad : i <= j]).exc, vals |-> <<>>]

\* ApertureMacro.parse_content: one turn of "for part in parts" on the state
\* m of the macro object, and the loop
parse_part(m, part) ==
    CASE part.k = "comment" -> m
      [] part.k = "var" ->
           LET v == eval(ZeroOthers(SubLocvars(part.text, m.locvars)))
           IN IF v.exc # "none" THEN [m EXCEPT !.exc = v.exc]
              ELSE [m EXCEPT !.locvars = SetVar(@, part.name, v.val)]
      [] part.k = "prim" ->
           LET v == EvalAll([i \in DOMAIN part.elements |->
                                ZeroOthers(SubLocvars(part.elements[i], m.locvars))])
           IN IF v.exc # "none" THEN [m EXCEPT !.exc = v.exc]
              ELSE [m EXCEPT !.primitives = Append(@, v.vals)]
      [] OTHER -> [m EXCEPT !.warn = @ \cup {"Unknown syntax of aperture macro part"}]

RECURSIVE parse_content(_, _)
parse_content(m, parts) ==
    IF parts = <<>> \/ m.exc # "none" THEN m
    ELSE parse_content(parse_part(m, Head(parts)), Tail(parts))

\* ApertureMacro.default2zero(n, mods)
default2zero(n, mods) == [i \in 1..(IF Len(mods) > n THEN Len(mods) ELSE n) |->
                             IF i <= Len(mods) THEN mods[i] ELSE 0]

\* The makers of make_geometry by primitive code, the number of modifiers
\* each unpacks, and the size that makes its shape non-empty.
Makers == {1, 2, 20, 21, 22, 4, 5, 6, 7}

MakerArity(code) ==
    CASE code = 1 -> 4 [] code \in {2, 20} -> 7 [] code \in {21, 22} -> 6
      [] code = 5 -> 6 [] code = 6 -> 9 [] OTHER -> 6

\* make_circle and the other makers: the exposure and the shape, which the
\* model keeps as the code and the padded modifiers
make_primitive(primitive) ==
    LET code == primitive[1]
        mods == default2zero(MakerArity(code), Tail(primitive))
    IN [pol |-> IF code \in {6, 7} THEN 1 ELSE mods[1],
        geometry |-> [code |-> code, mods |-> Tail(mods)],
        empty |-> IF code \in {6, 7} THEN mods[3] = 0 ELSE mods[2] = 0]

\* "for primitive in self.primitives": union for exposure 1, difference for
\* exposure 0; makers[...] raises KeyError for a code that is not a key
RECURSIVE make_all(_, _)
make_all(m, primitives) ==
    IF primitives = <<>> \/ m.exc # "none" THEN m
    ELSE LET prim_geo == make_primitive(Head(primitives))
         IN IF Head(primitives)[1] \notin Makers THEN [m EXCEPT !.exc = "KeyError"]
            ELSE make_all([m EXCEPT !.geometry =
                              IF prim_geo.empty THEN @
                              ELSE IF prim_geo.pol = 1 THEN @ \cup {prim_geo.geometry}
                              ELSE IF prim_geo.pol = 0 THEN @ \ {prim_geo.geometry}
                              ELSE @],
                          Tail(primitives))

\* ApertureMacro.make_geometry(modifiers)
make_geometry(raw, modifiers) ==
    LET m0 == [locvars |-> [i \in DOMAIN modifiers |-> [name |-> Str(i), val |-> modifiers[i]]],
               primitives |-> <<>>, geometry |-> {}, exc |-> "none", warn |-> {}]
        m1 == parse_content(m0, raw)
    IN make_all(m1, m1.primitives)

\* Gerber.create_flash_geometry(location, aperture) for an aperture of type
\* AM: the shapes of the macro moved to the location
create_flash_geometry(location, aperture) ==
    LET m == make_geometry(aperture.macro, aperture.modifiers)
    IN IF m.exc # "none" THEN [exc |-> m.exc, flash |-> {}, warn |-> m.warn, macro |-> m]
       ELSE [exc |-> "none",
             flash |-> {[at |-> location, shape |-> g] : g \in m.geometry},
             warn |-> m.warn \cup (IF m.geometry = {} THEN {"Empty geometry for Aperture Macro"}
                                                     ELSE {}),
             macro |-> m]

\* The macros and modifier lists of the model: up to MaxParts parts, each a
\* definition of $1, $2 or $10, a circle whose diameter is a reference, a
\* primitive of unknown code, a comment or a part of unknown syntax.
MaxParts == 2

MacroParts ==
    { Comment, Other,
      Variable(<<"1">>, Text(<<"7">>)),
      Variable(<<"2">>, Ref(<<"1">>)),
      Variable(<<"1", "0">>, Text(<<"4">>)),
      Primitive(<< Text(<<"1">>), Text(<<"1">>), Ref(<<"1">>) >>),
      Primitive(<< Text(<<"1">>), Text(<<"1">>), Ref(<<"2">>) >>),
      Primitive(<< Text(<<"1">>), Text(<<"1">>), Ref(<<"1", "0">>) >>),
      Primitive(<< Text(<<"8">>), Text(<<"1">>), Ref(<<"1">>) >>) }

ModifierLists == { <<>>, <<3>>, <<3, 5>>, <<3, 5, 0, 0, 0, 0, 0, 0, 0, 6>> }

InitMakeGeometry ==
    \E raw \in SeqsUpTo(MacroParts, MaxParts), mods \in ModifierLists :
        call = [fn |-> "create_flash_geometry", location |-> <<1, 1>>,
                aperture |-> [type |-> "AM", macro |-> raw, modifiers |-> mods]]

Call_create_flash_geometry ==
    /\ call.fn = "create_flash_geometry" /\ ret = Pending
    /\ LET r == create_flash_geometry(call.location, call.aperture)
       IN ret' = [done |-> TRUE, exc |-> r.exc, flash |-> r.flash, warn |-> r.warn,
                  primitives |-> r.macro.primitives, locvars |-> r.macro.locvars]
    /\ UNCHANGED call
    /\ UNCHANGED fnOthers

(***************************************************************************)
(* Geometry.flatten (fcCamlib/geometry.py).  A geometry is [type, tag,     *)
(* parts]: a Python list of geometries ("list"), a multi-part collection   *)
(* with its .geoms ("MultiPolygon", "GeometryCollection"), a Polygon with  *)
(* its exterior first and its interiors after it, or a part-less           *)
(* LineString or LinearRing.                                               *)
(***************************************************************************)
Geom(type, tag, parts) == [type |-> type, tag |-> tag, parts |-> parts]

\* geometry.geoms exists: the multi-part types of shapely
HasGeoms(g) == g.type \in {"MultiPolygon", "GeometryCollection"}

RECURSIVE flatten(_, _)
\* Geometry.flatten(geometry, reset=True, pathonly): what is appended to
\* self.flat_geometry.  "for geo in geometry.geoms" raises AttributeError
\* for everything without .geoms, a Python list included, and the handler
\* appends the exterior and the flattened interiors of a Polygon when
\* pathonly, and the geometry itself otherwise.
flatten(geometry, pathonly) ==
    IF HasGeoms(geometry)
      THEN Flatten([k \in 1..Len(geometry.parts) |-> flatten(geometry.parts[k], pathonly)])
      ELSE IF pathonly /\ geometry.type = "Polygon"
             THEN << geometry.parts[1] >>
                  \o Flatten([k \in 1..(Len(geometry.parts) - 1) |->
                                 flatten(geometry.parts[k + 1], TRUE)])
             ELSE << geometry >>

\* The values of solid_geometry flatten is called on: single geometries,
\* and lists and collections nested up to MaxNest deep.
MaxNest == 3

Ring(tag) == Geom("LinearRing", tag, <<>>)

Singles ==
    { Geom("LineString", "a", <<>>), Geom("LineString", "b", <<>>),
      Geom("Polygon", "p", << Ring("p0"), Ring("p1"), Ring("p2") >>) }

RECURSIVE Nested(_)
Nested(d) ==
    IF d = 0 THEN Singles
    ELSE LET in == Nested(d - 1)
         IN Singles
            \cup { Geom("list", "", <<>>) }
            \cup { Geom(t, "", <<x>>) : t \in {"list", "GeometryCollection"}, x \in in }
            \cup { Geom(t, "", <<x, y>>) : t \in {"list", "GeometryCollection"},
                                           x \in Singles, y \in in }
            \cup { Geom("MultiPolygon", "", <<x, x>>) : x \in {s \in Singles : s.type = "Polygon"} }

InitFlatten ==
    \E g \in Nested(MaxNest), po \in BOOLEAN :
        call = [fn |-> "flatten", geometry |-> g, pathonly |-> po]

Call_flatten ==
    /\ call.fn = "flatten" /\ ret = Pending
    /\ ret' = [done |-> TRUE, flat_geometry |-> flatten(call.geometry, call.pathonly)]
    /\ UNCHANGED call
    /\ UNCHANGED fnOthers

(***************************************************************************)
(*          FlatCAMCNCjob.dwell_generator (fcObjects/cncjob.py)            *)
(***************************************************************************)
\* m3m4re = '^\s*[mM]0[34]': the line begins with M03 or M04
m3m4re(line) == line[1] \in {"M03", "M03 S%d", "M04"}

\* g4re = '^\s*[gG]4\s+([\d\.\+\-e]+)': G4, blanks, then a digit, sign or
\* period.  A line "G4 P1" has a P there and does not match, nor does "G04".
g4re(line) == line[1] = "G4 %d"

\* "G4 P{}\n".format(self.options['dwelltime'])
DwellLine(self) == Ln("G4 P{}", self.options.dwelltime, 0)

RECURSIVE dwell_lines(_, _, _)
\* The lines dwell_generator yields for the rest of its input; bufline
\* holds the buffered G4 line, and is empty for None.
dwell_lines(self, bufline, lines) ==
    IF lines = <<>> THEN <<>>
    ELSE LET line == lines[1] IN
         IF bufline # <<>>
           THEN bufline \o (IF ~g4re(line) THEN << line >> ELSE <<>>)
                \o dwell_lines(self, <<>>, Tail(lines))
           ELSE << line >>
                \o dwell_lines(self, IF m3m4re(line) THEN << DwellLine(self) >> ELSE <<>>,
                               Tail(lines))

\* FlatCAMCNCjob.dwell_generator(lines)
dwell_generator(self, lines) == dwell_lines(self, <<>>, lines)

\* The texts dwell_generator is called on: up to MaxDwellLines lines, spindle
\* starts, dwells as the generator writes them and with a bare number, and
\* a move.
MaxDwellLines == 4

DwellInputLines ==
    { Ln("M03", 0, 0), Ln("M04", 0, 0), Ln("G4 P{}", 1, 0), Ln("G4 %d", 2, 0), G00Z(1) }

InitDwell ==
    \E l \in SeqsUpTo(DwellInputLines, MaxDwellLines), t \in {1, 3} :
        call = [fn |-> "dwell_generator", self |-> [options |-> [dwelltime |-> t]], lines |-> l]

Call_dwell_generator ==
    /\ call.fn = "dwell_generator" /\ ret = Pending
    /\ ret' = [done |-> TRUE, lines |-> dwell_generator(call.self, call.lines)]
    /\ UNCHANGED call
    /\ UNCHANGED fnOthers

\* The G-code texts gcode_parse is called on: up to MaxGLines lines, moves
\* with and without a G word, height changes alone and together with X, a
\* units line and an arc without centre.
MaxGLines == 3

GLines ==
    { G00XY(<<12, 0>>), G01XY(<<12, 27>>), Ln("X%.4fY%.4f", 27, 27),
      Ln("G01 X%.4fZ%.4f", 40, -2), G00Z(1), G01Z(-2), Ln("G21", 0, 0),
      Ln("G02 X%.4fY%.4f", 0, 0) }

InitGcodeParse ==
    \E g \in SeqsUpTo(GLines, MaxGLines) :
        call = [fn |-> "gcode_parse", self |-> [units |-> "IN", gcode |-> g]]

Call_gcode_parse ==
    /\ call.fn = "gcode_parse" /\ ret = Pending
    /\ LET r == gcode_parse(call.self)
       IN ret' = [done |-> TRUE, exc |-> r.exc, gcode_parsed |-> r.gcode_parsed,
                  units |-> r.units]
    /\ UNCHANGED call
    /\ UNCHANGED fnOthers

(***************************************************************************)
(*      Gerber.parse_lines, a line at a time (fcCamlib/gerber.py)          *)
(*                                                                         *)
(* Here a line is the sequence of its words, a word being a letter or the  *)
(* name of an extended command with the text and the number that follow    *)
(* it; the patterns of the parser are predicates on such sequences.        *)
(***************************************************************************)
Word(c, t, v) == [c |-> c, t |-> t, v |-> v]

GW(t) == Word("G", t, 0)

DW(t) == Word("D", t, 0)

XY(c, v) == Word(c, "", v)

Star == Word("*", "", 0)

Pct == Word("%", "", 0)

Cmd(c, t) == Word(c, t, 0)

Txt(t) == Word("txt", t, 0)

\* The line without a leading G word whose digits are among ts.
OptG(gline, ts) ==
    IF Len(gline) >= 1 /\ gline[1].c = "G" /\ gline[1].t \in ts THEN Tail(gline) ELSE gline

\* The D word that closes the line before its "*", when it is one of ds.
ClosingD(gline, ds) ==
    Len(gline) >= 3 /\ gline[Len(gline) - 1].c = "D" /\ gline[Len(gline) - 1].t \in ds

\* "[first][^stops]*(?:D..)?\*$": coordinate words, the first one of
\* `first`, none with a letter of `stops`, then a D word of ds or none,
\* then "*" and the end of the line.
CoordsThenD(body, first, stops, ds) ==
    /\ Len(body) >= 2 /\ Last(body) = Star
    /\ LET run == SubSeq(body, 1, Len(body) - (IF ClosingD(body, ds) THEN 2 ELSE 1))
       IN /\ Len(run) >= 1 /\ run[1].c \in first
          /\ \A k \in 1..Len(run) : run[k].c \in ({"G", "X", "Y", "I", "J", "*", "%"} \ stops)

OpCodes == {"01", "02", "03", "1", "2", "3"}

\* Numbers of two digits or more, "\d\d+"
LongNumbers == {"01", "02", "03", "10", "010"}

\* lin_re = r'^(?:G0?(1))?(?=.*X([\+-]?\d+))?(?=.*Y([\+-]?\d+))?[XY][^DIJ]*(?:D0?([123]))?\*$'
lin_re(gline) == CoordsThenD(OptG(gline, {"01", "1"}), {"X", "Y"}, {"D", "I", "J"}, OpCodes)

\* circ_re = r'^(?:G0?([23]))?(?=.*X..)?(?=.*Y..)?(?=.*I..)?(?=.*J..)?[XYIJ][^D]*(?:D0([12]))?\*$'
circ_re(gline) ==
    CoordsThenD(OptG(gline, {"02", "03", "2", "3"}), {"X", "Y", "I", "J"}, {"D"}, {"01", "02"})

\* opcode_re = r'^D0?([123])\*$'
opcode_re(gline) == Len(gline) = 2 /\ gline[1].c = "D" /\ gline[1].t \in OpCodes /\ gline[2] = Star

\* A G word of gs alone before "*" and the end of the line.
BareG(gline, gs) == Len(gline) = 2 /\ gline[1].c = "G" /\ gline[1].t \in gs /\ gline[2] = Star

\* quad_re = r'^G7([45])\*$'
quad_re(gline) == BareG(gline, {"74", "75"})

\* regionon_re = r'^G36\*$'
regionon_re(gline) == BareG(gline, {"36"})

\* regionoff_re = r'^G37\*$'
regionoff_re(gline) == BareG(gline, {"37"})

\* An extended command "%<name>...*%" with nothing else on the line.
Extended(gline, name) ==
    /\ Len(gline) >= 4 /\ gline[1] = Pct /\ gline[2].c = name
    /\ gline[Len(gline) - 1] = Star /\ gline[Len(gline)] = Pct

\* ad_re = r'^%ADD(\d\d+)([a-zA-Z_$\.][a-zA-Z0-9_$\.\-]*)(?:,(.*))?\*%$'
ad_re(gline) ==
    /\ Extended(gline, "ADD") /\ gline[2].t \in LongNumbers
    /\ Len(gline) = 5 /\ gline[3].c = "txt"

\* interp_re = r'^(?:G0?([123]))\*'
interp_re(gline) ==
    Len(gline) >= 2 /\ gline[1].c = "G" /\ gline[1].t \in OpCodes /\ gline[2] = Star

\* tool_re = r'^(?:G54)?D(\d\d+)\*$'
tool_re(gline) ==
    LET body == OptG(gline, {"54"})
    IN Len(body) = 2 /\ body[1].c = "D" /\ body[1].t \in LongNumbers /\ body[2] = Star

\* lpol_re = r'^%LP([DC])\*%$'
lpol_re(gline) == Extended(gline, "LP") /\ Len(gline) = 4 /\ gline[2].t \in {"D", "C"}

\* fmt_re = r'%FS([LT])([AI])X(\d)(\d)Y\d\d\*%$', not anchored at the start
fmt_re(gline) ==
    Len(gline) >= 4 /\ Extended(SubSeq(gline, Len(gline) - 3, Len(gline)), "FS")

\* mode_re = r'^%MO(IN|MM)\*%$'
mode_re(gline) == Extended(gline, "MO") /\ Len(gline) = 4 /\ gline[2].t \in {"IN", "MM"}

\* units_re = r'^G7([01])\*$'
units_re(gline) == BareG(gline, {"70", "71"})

\* absrel_re = r'^G9([01])\*$'
absrel_re(gline) == BareG(gline, {"90", "91"})

\* comm_re = r'^G0?4(.*)$'
comm_re(gline) == Len(gline) >= 1 /\ gline[1].c = "G" /\ gline[1].t \in {"04", "4"}

\* eof_re = r'^M02\*'
eof_re(gline) == Len(gline) >= 2 /\ gline[1] = Word("M", "02", 0) /\ gline[2] = Star

\* am1_re = r'^%AM([^\*]+)\*([^%]+)?(%)?$'
am1_re(gline) ==
    /\ Len(gline) >= 3 /\ gline[1] = Pct /\ gline[2].c = "AM" /\ gline[3] = Star
    /\ \A k \in 4..(Len(gline) - 1) : gline[k] # Pct

\* am2_re = r'(.*)%$'
am2_re(gline) == Len(gline) >= 1 /\ Last(gline) = Pct

\* The number a lookahead "(?=.*X(...))?" captures: that of the last word
\* with the letter, None without one.
Captured(gline, c) ==
    IF \E k \in 1..Len(gline) : gline[k].c = c
      THEN gline[CHOOSE k \in 1..Len(gline) :
                   gline[k].c = c /\ \A m \in (k + 1)..Len(gline) : gline[m].c # c].v
      ELSE None

\* int() of the digits of an operation code
OpCode(t) == CASE t \in {"01", "1"} -> 1 [] t \in {"02", "2"} -> 2 [] t \in {"03", "3"} -> 3

\* The operation code a coordinate line captures, None without one.
CapturedD(gline, ds) ==
    IF ClosingD(gline, ds) THEN OpCode(gline[Len(gline) - 1].t) ELSE None

\* The interpolation mode the leading G word of a line gives, None without one.
CapturedG(gline, gs) ==
    IF Len(gline) >= 1 /\ gline[1].c = "G" /\ gline[1].t \in gs THEN OpCode(gline[1].t) ELSE None

NoMacro == "None"

\* The locals of parse_lines and the attributes of self it writes, before
\* the first line.  handled is history: for every line read, the handlers
\* that ran for it; arc is history: the centres arc() was called with.
ParserNew ==
    [ g |-> GerberNew(FALSE), current_macro |-> NoMacro,
      aperture_macros |-> [m \in {} |-> <<>>],
      quadrant_mode |-> "None", current_interpolation_mode |-> None,
      frac_digits |-> 4, units |-> "IN", absolute |-> TRUE,
      handled |-> <<>>, log |-> {}, arc |-> <<>>, exc |-> "none" ]

\* The handler `name` ran for the line in hand.
Handled(p, name) == [p EXCEPT !.handled[Len(p.handled)] = Append(@, name)]

\* A handler that works on the document and the drawing locals has run.
Drawn(p, name, r) ==
    [Handled(p, name) EXCEPT !.g = r.st, !.exc = r.exc, !.log = @ \cup r.warn]

Logged(p, msg, n) == [p EXCEPT !.log = @ \cup {[msg |-> msg, line |-> n]}]

\* What the handlers of the document are given of a line.
Groups(kind, gline) ==
    [k |-> kind,
     x |-> Captured(gline, "X"), y |-> Captured(gline, "Y"),
     d |-> IF kind = "opcode" THEN OpCode(gline[1].t) ELSE CapturedD(gline, OpCodes),
     id |-> IF kind = "AD" THEN gline[2].t
            ELSE IF kind = "tool" THEN OptG(gline, {"54"})[1].t ELSE "",
     p |-> IF kind = "LP" THEN gline[2].t ELSE ""]

\* lines 485-510: the aperture macro in hand, or the start of one
macro_handler(p, gline) ==
    IF p.current_macro = NoMacro
      THEN LET name == gline[2].t
               finished == Len(gline) >= 4 /\ Last(gline) = Pct
               group2 == SubSeq(gline, 4, Len(gline) - (IF finished THEN 1 ELSE 0))
           IN [Handled(p, "macro") EXCEPT
                 !.aperture_macros = [m \in {e \in DOMAIN @ : e # name} |-> @[m]]
                                         @@ (name :> group2),
                 !.current_macro = IF finished THEN NoMacro ELSE name]
      ELSE LET data == IF am2_re(gline) THEN SubSeq(gline, 1, Len(gline) - 1) ELSE gline
           IN [Handled(p, "macro") EXCEPT
                 !.aperture_macros[p.current_macro] = @ \o data,
                 !.current_macro = IF am2_re(gline) THEN NoMacro ELSE @]

\* The four centres tried in single-quadrant mode, in the order of the list
\* center_candidates.
center_candidates(cur, i, j) ==
    << <<i + cur[1], j + cur[2]>>, <<-i + cur[1], j + cur[2]>>,
       <<i + cur[1], -j + cur[2]>>, <<-i + cur[1], -j + cur[2]>> >>

\* "radius2 < radius * 0.95 or radius2 > radius * 1.05" is false, on the
\* squares of the two radii.
RadiusAgrees(center, to, i, j) ==
    LET rr == i * i + j * j
        rr2 == Dist2(center, to)
    IN ~(10000 * rr2 < 9025 * rr) /\ ~(10000 * rr2 > 11025 * rr)

\* "abs(arc_angle(start, stop, direction)) <= (pi + 1e-6) / 2" for the
\* angles of the rays from the centre to the start and to the end: the end
\* lies a quarter turn or less ahead of the start in the direction given.
\* On the ray of the start arc_angle gives a full turn, or none where
\* arctan2 is handed a negative zero; the arcs of GerberTexts keep off it.
QuarterTurn(center, from, to, mode) ==
    LET u == <<from[1] - center[1], from[2] - center[2]>>
        v == <<to[1] - center[1], to[2] - center[2]>>
        cross == u[1] * v[2] - u[2] * v[1]
        dot == u[1] * v[1] + u[2] * v[2]
    IN dot >= 0 /\ (IF mode = 3 THEN cross > 0 ELSE cross < 0)

\* The candidates the loop of lines 706-738 accepts, in its order.
Accepted(cur, to, i, j, mode) ==
    SelectSeq(center_candidates(cur, i, j),
              LAMBDA c : RadiusAgrees(c, to, i, j) /\ QuarterTurn(c, cur, to, mode))

\* arc() of utils.py evaluates cos(theta) and sin(theta); the module
\* imports ceil, Inf, pi and sqrt only (utils.py:3, 74).
arc(p, center) == [p EXCEPT !.arc = Append(@, center), !.exc = "NameError"]

\* lines 598-749: the line matches circ_re.  The result says whether the
\* handler left with "continue".
circ_handler(p0, gline, n) ==
    LET mode == CapturedG(gline, {"02", "03", "2", "3"})
        d == CapturedD(gline, {"01", "02"})
        x == IF Captured(gline, "X") # None THEN Captured(gline, "X") ELSE p0.g.current_x
        y == IF Captured(gline, "Y") # None THEN Captured(gline, "Y") ELSE p0.g.current_y
        i == IF Captured(gline, "I") # None THEN Captured(gline, "I") ELSE 0
        j == IF Captured(gline, "J") # None THEN Captured(gline, "J") ELSE 0
        p == Handled(p0, "circ")
        cur == <<p0.g.current_x, p0.g.current_y>>
        Continue(q) == [p |-> q, continued |-> TRUE]
    IN IF p.quadrant_mode = "None"
         THEN Continue(Logged(p, "Found arc without preceding quadrant specification G74 or G75.", n))
       ELSE IF mode = None /\ p.current_interpolation_mode \notin {2, 3}
         THEN Continue(Logged(p, "Found arc without circular interpolation mode defined.", n))
       ELSE
         LET p1 == [p EXCEPT !.current_interpolation_mode = IF mode # None THEN mode ELSE @,
                             !.g.current_operation_code = IF d # None THEN d ELSE @]
             code == p1.g.current_operation_code
             cim == p1.current_interpolation_mode
         IN IF code = 2
              THEN LET p2 == Logged(p1, "Arc with D2.", n)
                       r == IF Len(p2.g.path) > 1
                              THEN (IF p2.g.last_path_aperture = NoAperture
                                      THEN Warned(BufferPath(p2.g),
                                                  [msg |-> "No aperture defined for curent path", line |-> n])
                                      ELSE BufferPath(p2.g))
                              ELSE Ok(p2.g)
                   IN Continue([p2 EXCEPT
                                  !.g = IF r.exc # "none" THEN r.st
                                        ELSE [r.st EXCEPT !.current_x = x, !.current_y = y,
                                                          !.path = << <<x, y>> >>],
                                  !.exc = r.exc, !.log = @ \cup r.warn])
            ELSE IF code = 3
              THEN Continue(Logged(p1, "Trying to flash within arc.", n))
            ELSE IF None \in {cur[1], cur[2]}
              THEN Continue([p1 EXCEPT !.exc = "TypeError"])
            ELSE IF p1.quadrant_mode = "MULTI"
              THEN Continue(arc(p1, <<i + cur[1], j + cur[2]>>))
            ELSE IF Accepted(cur, <<x, y>>, i, j, cim) # <<>>
              THEN Continue(arc(p1, Accepted(cur, <<x, y>>, i, j, cim)[1]))
              ELSE [p |-> Logged(p1, "Invalid arc", n), continued |-> FALSE]

\* lines 754-957: the patterns tried after circ_re
after_circ(p, gline, n) ==
    IF opcode_re(gline)
      THEN Drawn(p, "opcode", opcode_handler(p.g, Groups("opcode", gline), n))
    ELSE IF quad_re(gline)
      THEN [Handled(p, "quad") EXCEPT
              !.quadrant_mode = IF gline[1].t = "74" THEN "SINGLE" ELSE "MULTI"]
    ELSE IF regionon_re(gline)
      THEN Drawn(p, "regionon", regionon_handler(p.g, Groups("G36", gline), n))
    ELSE IF regionoff_re(gline)
      THEN Drawn(p, "regionoff", regionoff_handler(p.g, Groups("G37", gline), n))
    ELSE IF ad_re(gline)
      THEN Drawn(p, "ad", ad_handler(p.g, Groups("AD", gline), n))
    ELSE IF interp_re(gline)
      THEN [Handled(p, "interp") EXCEPT !.current_interpolation_mode = OpCode(gline[1].t)]
    ELSE IF tool_re(gline)
      THEN Drawn(p, "tool", tool_handler(p.g, Groups("tool", gline), n))
    ELSE IF lpol_re(gline)
      THEN Drawn(p, "lpol", lpol_handler(p.g, Groups("LP", gline), n))
    ELSE IF fmt_re(gline)
      THEN [Handled(p, "fmt") EXCEPT !.frac_digits = gline[Len(gline) - 2].v]
    ELSE IF mode_re(gline)
      THEN [Handled(p, "mode") EXCEPT !.units = gline[2].t]
    ELSE IF units_re(gline)
      THEN [Handled(p, "units") EXCEPT !.units = IF gline[1].t = "70" THEN "IN" ELSE "MM"]
    ELSE IF absrel_re(gline)
      THEN [Handled(p, "absrel") EXCEPT !.absolute = (gline[1].t = "90")]
    ELSE IF comm_re(gline) THEN Handled(p, "comment")
    ELSE IF eof_re(gline) THEN Handled(p, "eof")
    ELSE Logged(Handled(p, "unrecognized"), "Line ignored", n)

\* lines 476-957: one turn of "for gline in glines"
parse_line(p0, gline, n) ==
    LET p == [p0 EXCEPT !.handled = Append(@, <<>>)]
    IN IF p.current_macro # NoMacro \/ am1_re(gline) THEN macro_handler(p, gline)
       ELSE IF lin_re(gline) THEN Drawn(p, "lin", lin_handler(p.g, Groups("lin", gline), n))
       ELSE IF circ_re(gline)
         THEN LET r == circ_handler(p, gline, n)
              IN IF r.continued \/ r.p.exc # "none" THEN r.p ELSE after_circ(r.p, gline, n)
       ELSE after_circ(p, gline, n)

RECURSIVE parse_trace(_, _, _)
\* The parser after each of the lines read, up to the one that raised.
parse_trace(p, glines, n) ==
    IF glines = <<>> \/ p.exc # "none" THEN <<>>
    ELSE LET q == parse_line(p, glines[1], n)
         IN << q >> \o parse_trace(q, Tail(glines), n + 1)

\* The lines tried, one of every kind the parser knows and some it does not.
GerberTexts ==
    { << XY("X", 1), XY("Y", 1), DW("01"), Star >>,
      << XY("X", 1), XY("Y", 0), DW("02"), Star >>,
      << XY("X", 0), XY("Y", 1), DW("03"), Star >>,
      << XY("X", 0), XY("Y", 1), XY("I", 1), XY("J", 0), DW("01"), Star >>,
      << XY("X", 2), XY("Y", 1), XY("I", 1), XY("J", 0), DW("01"), Star >>,
      << GW("02"), XY("X", 3), XY("Y", 3), XY("I", 1), XY("J", 0), DW("01"), Star >>,
      << XY("X", 1), XY("Y", 1), XY("I", 1), XY("J", 1), DW("03"), Star >>,
      << DW("03"), Star >>,
      << GW("74"), Star >>, << GW("75"), Star >>,
      << GW("36"), Star >>, << GW("37"), Star >>,
      << Pct, Cmd("ADD", "10"), Txt("C,1"), Star, Pct >>,
      << GW("02"), Star >>,
      << DW("10"), Star >>,
      << Pct, Cmd("LP", "C"), Star, Pct >>,
      << Pct, Word("FS", "LAX24Y24", 4), Star, Pct >>,
      << Pct, Cmd("MO", "MM"), Star, Pct >>,
      << GW("70"), Star >>, << GW("90"), Star >>,
      << GW("04"), Txt("text"), Star >>,
      << Word("M", "02", 0), Star >>,
      << Txt("foo") >>,
      << Pct, Cmd("AM", "M1"), Star >>,
      << Pct, Cmd("AM", "M1"), Star, Txt("1,1"), Star, Pct >>,
      << Txt("1,1"), Star, Pct >> }

\* The lines read before the lines tried.
GerberPreambles ==
    { <<>>,
      << << GW("74"), Star >>, << XY("X", 1), XY("Y", 0), DW("02"), Star >> >>,
      << << GW("74"), Star >>, << GW("02"), Star >>, << XY("X", 1), XY("Y", 0), DW("02"), Star >> >>,
      << << GW("74"), Star >>, << GW("03"), Star >>, << XY("X", 1), XY("Y", 0), DW("02"), Star >> >>,
      << << GW("75"), Star >>, << GW("03"), Star >>, << XY("X", 1), XY("Y", 0), DW("02"), Star >> >>,
      << << Pct, Cmd("AM", "M1"), Star >> >>,
      << << Pct, Cmd("ADD", "10"), Txt("C,1"), Star, Pct >>, << DW("10"), Star >>,
         << XY("X", 0), XY("Y", 0), DW("02"), Star >>, << XY("X", 1), XY("Y", 0), DW("01"), Star >> >> }

MaxGerberLines == 1

InitGerberLines ==
    \E pre \in GerberPreambles, glines \in SeqsUpTo(GerberTexts, MaxGerberLines) :
        call = [fn |-> "parse_lines", before |-> pre, glines |-> glines]

\* parse_lines on the lines read before and then on the lines tried.
Call_parse_lines ==
    /\ call.fn = "parse_lines" /\ ret = Pending
    /\ LET pre == parse_trace(ParserNew, call.before, 1)
           p == IF pre = <<>> THEN ParserNew ELSE Last(pre)
       IN ret' = [done |-> TRUE, start |-> p,
                  trace |-> parse_trace(p, call.glines, Len(call.before) + 1)]
    /\ UNCHANGED call
    /\ UNCHANGED fnOthers

InitCalls ==
    /\ JobsIdle /\ CamIdle /\ ParseIdle /\ StackIdle /\ ClearIdle
    /\ ret = Pending
    /\ InitParseNumber \/ InitConvertUnits \/ InitMakeGeometry \/ InitGcodeParse
       \/ InitFlatten \/ InitDwell \/ InitGerberLines

CallsNext ==
    \/ Call_parse_number
    \/ Call_convert_units
    \/ Call_create_flash_geometry
    \/ Call_gcode_parse
    \/ Call_flatten
    \/ Call_dwell_generator
    \/ Call_parse_lines

SpecCalls == InitCalls /\ [][CallsNext]_vars

(***************************************************************************)
(* WorkerStack (FlatCAMWorkerStack.py).  add_task and on_task_completed    *)
(* are slots of the stack and run one at a time on its thread.  The class  *)
(* Worker is not among the sources: a worker is what the stack's users     *)
(* are promised, it runs a task handed to it at most once, in a thread of  *)
(* its own, and reports its completion or failure.                         *)
(***************************************************************************)
MaxTasks == 4

\* 'Slogger-' + str(i) for i in range(0, 2), in the order of self.load
WorkerNames == << "Slogger-0", "Slogger-1" >>

\* __init__: self.load[worker.name] = 0 for both workers
InitStack ==
    /\ load = [n \in {WorkerNames[i] : i \in 1..2} |-> 0]
    /\ tasks = <<>>

\* The choice of the first worker whatever the load.
MinLoad_First(l) == WorkerNames[1]

\* min(self.load, key=self.load.get): the first name, in the order of the
\* dictionary, whose count is minimal
MinLoad(l) ==
    WorkerNames[CHOOSE i \in 1..2 :
                    /\ \A j \in 1..2 : l[WorkerNames[i]] <= l[WorkerNames[j]]
                    /\ \A j \in 1..(i - 1) : l[WorkerNames[j]] > l[WorkerNames[i]]]

\* WorkerStack.add_task(task): count the task for the chosen worker and
\* emit worker_task with its name.
add_task(task) ==
    /\ Len(tasks) < MaxTasks
    /\ LET worker_name == MinLoad(load) IN
         /\ load' = [load EXCEPT ![worker_name] = @ + 1]
         /\ tasks' = Append(tasks, [worker_name |-> worker_name, fcn |-> task.fcn,
                                    state |-> "emitted"])
    /\ UNCHANGED stackOthers

\* The worker named in the signal runs the task, which returns or raises,
\* and emits task_completed with its own name.
do_worker_task(k, raises) ==
    /\ k \in 1..Len(tasks) /\ tasks[k].state = "emitted"
    /\ tasks' = [tasks EXCEPT ![k].state = IF raises THEN "failed" ELSE "run"]
    /\ UNCHANGED load
    /\ UNCHANGED stackOthers

\* WorkerStack.on_task_completed(worker_name), for the task_completed signal
\* of task k
on_task_completed(k) ==
    /\ k \in 1..Len(tasks) /\ tasks[k].state \in {"run", "failed"}
    /\ load' = [load EXCEPT ![tasks[k].worker_name] = @ - 1]
    /\ tasks' = [tasks EXCEPT ![k].state = "completed"]
    /\ UNCHANGED stackOthers

StackNext ==
    \/ \E f \in {"job_thread", "geo_thread"} : add_task([fcn |-> f, params |-> <<>>])
    \/ \E k \in 1..MaxTasks, raises \in BOOLEAN : do_worker_task(k, raises)
    \/ \E k \in 1..MaxTasks : on_task_completed(k)

InitStackSpec == InitStack /\ JobsIdle /\ CamIdle /\ ParseIdle /\ FnIdle /\ ClearIdle

SpecStack == InitStackSpec /\ [][StackNext]_vars

(***************************************************************************)
(* clear_polygon (fcCamlib/geometry.py:453-520).  The polygons are shapes  *)
(* whose inward buffer is known exactly: rectangles lying far apart (one   *)
(* makes a Polygon, several a MultiPolygon) and a rectangular frame whose  *)
(* wall has one thickness all round.  Lengths are whole numbers of a unit  *)
(* in which the tool diameters are even, so that half a diameter and every *)
(* step are whole as well.  Buffering inwards by a and then by b is        *)
(* buffering inwards by a + b: a buffered polygon is known by the polygon  *)
(* it came from and the inset that was taken off it in all.                *)
(***************************************************************************)
MaxSide == 6

ToolDias == {2, 4}

\* overlap, in hundredths: 0 <= overlap < 1
Overlaps == {0, 50}

Rect(w, h) == [kind |-> "rect", w |-> w, h |-> h, t |-> 0]

\* A rectangle w by h with a rectangular hole that leaves a wall of t.
Frame(w, h, t) == [kind |-> "frame", w |-> w, h |-> h, t |-> t]

ClearPolygons ==
    { << Rect(w, h) >> : w \in 1..MaxSide, h \in {1, MaxSide} }
      \cup { << Rect(w, MaxSide), Rect(MaxSide, MaxSide) >> : w \in 1..MaxSide }
      \cup { << Frame(4 * t, 4 * t, t) >> : t \in 3..MaxSide }

\* What is left of one shape when `inset` is taken off its boundary: the
\* pieces, each with the number of its holes.  A rectangle loses the inset
\* on every side.  The wall of a frame loses it on both faces; when the wall
\* is used up a piece is left in each corner for as long as the corner of
\* the outline is further than the inset from the corner of the hole.
Pieces(shape, inset) ==
    IF shape.kind = "rect"
      THEN IF shape.w > 2 * inset /\ shape.h > 2 * inset THEN << [interiors |-> 0] >> ELSE <<>>
    ELSE IF 2 * inset < shape.t THEN << [interiors |-> 1] >>
    ELSE IF inset < shape.t /\ 2 * (shape.t - inset) * (shape.t - inset) > inset * inset
      THEN [k \in 1..4 |-> [interiors |-> 0]]
    ELSE <<>>

RECURSIVE AllPieces(_, _)
AllPieces(polygon, inset) ==
    IF polygon = <<>> THEN <<>>
    ELSE Pieces(polygon[1], inset) \o AllPieces(Tail(polygon), inset)

\* geometry.buffer(-distance) of what is left of `polygon` in `current`
buffer(polygon, current, distance) ==
    [inset |-> current.inset + distance,
     pieces |-> AllPieces(polygon, current.inset + distance)]

\* The argument of clear_polygon, as buffer sees it.
Unbuffered(polygon) == [inset |-> 0, pieces |-> AllPieces(polygon, 0)]

\* current.area > 0
HasArea(current) == current.pieces # <<>>

\* current is a MultiPolygon
IsMultiPolygon(current) == Len(current.pieces) > 1

BoundaryRing(inset, k, i) == [inset |-> inset, piece |-> k, ring |-> i]

\* The exterior of an empty polygon: a ring without points.
EmptyRing == [inset |-> 0, piece |-> 0, ring |-> 0]

Rings_ExteriorOnly(current, k) == << BoundaryRing(current.inset, k, 0) >>

\* "geoms.insert(p.exterior); for i in p.interiors: geoms.insert(i)" for
\* the k-th piece of current
Rings(current, k) ==
    << BoundaryRing(current.inset, k, 0) >>
        \o [i \in 1..current.pieces[k].interiors |-> BoundaryRing(current.inset, k, i)]

RECURSIVE RingsFrom(_, _)
RingsFrom(current, k) ==
    IF k > Len(current.pieces) THEN <<>> ELSE Rings(current, k) \o RingsFrom(current, k + 1)

\* lines 483-493 and 501-512: "try: for p in current: ... except TypeError:
\* ...".  A Polygon cannot be iterated over and is handled by the except
\* clause; there the exterior of an empty polygon is appended to
\* geoms.objects and get_pts raises IndexError on its coords[0].  A
\* MultiPolygon is iterated over by the versions of shapely that allow it;
\* under the others the for statement raises TypeError and the except clause
\* raises AttributeError on current.exterior.
insert_boundaries(geoms, current, iterable) ==
    IF IsMultiPolygon(current)
      THEN IF iterable THEN [geoms |-> geoms \o RingsFrom(current, 1), exc |-> "none"]
                       ELSE [geoms |-> geoms, exc |-> "AttributeError"]
    ELSE IF ~HasArea(current) THEN [geoms |-> Append(geoms, EmptyRing), exc |-> "IndexError"]
    ELSE [geoms |-> geoms \o Rings(current, 1), exc |-> "none"]

\* "-tooldia * (1 - overlap)", without the sign
Step(tooldia, overlap) == (tooldia * (100 - overlap)) \div 100

InitClear ==
    \E polygon \in ClearPolygons, tooldia \in ToolDias, overlap \in Overlaps, iterable \in BOOLEAN :
        clearing = [pc |-> "start", polygon |-> polygon, tooldia |-> tooldia, overlap |-> overlap,
                    iterable |-> iterable, current |-> Unbuffered(polygon), geoms |-> <<>>]

\* lines 468-493: up to "while True"
Clear_Begin ==
    /\ clearing.pc = "start"
    /\ LET current == buffer(clearing.polygon, clearing.current, clearing.tooldia \div 2)
           r == insert_boundaries(clearing.geoms, current, clearing.iterable)
       IN clearing' = [clearing EXCEPT !.current = current, !.geoms = r.geoms,
                                       !.pc = IF r.exc = "none" THEN "while" ELSE r.exc]
    /\ UNCHANGED clearOthers

\* lines 495-514: one turn of "while True"
Clear_Shrink ==
    /\ clearing.pc = "while"
    /\ LET current == buffer(clearing.polygon, clearing.current,
                             Step(clearing.tooldia, clearing.overlap))
           r == insert_boundaries(clearing.geoms, current, clearing.iterable)
       IN clearing' =
            IF HasArea(current)
              THEN [clearing EXCEPT !.current = current, !.geoms = r.geoms,
                                    !.pc = IF r.exc = "none" THEN "while" ELSE r.exc]
              ELSE [clearing EXCEPT !.current = current, !.pc = "paint_connect"]
    /\ UNCHANGED clearOthers

\* lines 516-520: "geoms = Geometry.paint_connect(geoms, polygon, tooldia)"
\* and the return.  paint_connect is the pass of the Paint actions; of its
\* outcome only this is kept, that an empty storage makes it leave with
\* StopIteration and that it returns otherwise.
Clear_Connect ==
    /\ clearing.pc = "paint_connect"
    /\ clearing' = [clearing EXCEPT !.pc = IF clearing.geoms = <<>> THEN "StopIteration" ELSE "done"]
    /\ UNCHANGED clearOthers

ClearNext == Clear_Begin \/ Clear_Shrink \/ Clear_Connect

\* clear_polygon runs on the thread of its caller and is not suspended for
\* good: a step that can be taken is taken.
InitClearPolygon == InitClear /\ JobsIdle /\ CamIdle /\ ParseIdle /\ FnIdle /\ StackIdle

SpecClearPolygon == InitClearPolygon /\ [][ClearNext]_vars /\ WF_vars(ClearNext)

(***************************************************************************)
(*                             THE PROPERTIES                              *)
(***************************************************************************)
IsG2 == op = "generate_from_geometry_2"

IsEx == op = "generate_from_excellon_by_tool"

\* C1: every promise registered before a job is dispatched is resolved or
\* retracted once the job has run: when no dispatched job is left to run,
\* no promise is pending (also when a job raised).
C1_PromiseResolvedOrRetracted == (inflight = <<>>) => (promises = {})

\* C2: paint_connect and generate_from_geometry_2 take an empty or exhausted
\* index as normal completion, also when the index is empty at the start:
\* StopIteration never escapes to the caller.
C2_ExhaustionIsNormalCompletion ==
    (op \in {"paint_connect", "generate_from_geometry_2"}) => pc # "StopIteration"

\* The initialization block as the specification words it.
C3_InitBlock ==
    << IF inp.units = "IN" THEN <<"G20", 0, 0>> ELSE <<"G21", 0, 0>>,
       <<"G90", 0, 0>>, <<"G94", 0, 0>>, <<"F%.2f", inp.feedrate, 0>>,
       <<"G00 Z%.4f", inp.z_move, 0>>,
       IF inp.spindlespeed # None THEN <<"M03 S%d", inp.spindlespeed, 0>>
                                   ELSE <<"M03", 0, 0>> >>

C3_IsHome(l) == l[1] \in {"G00 X0Y0", "G00 X%.4fY%.4f"} /\ l[2] = 0 /\ l[3] = 0

\* The templates of the per-path, per-drill and tool-change commands.
C3_BodyTemplates ==
    {"G00 X%.4fY%.4f", "G01 X%.4fY%.4f", "G00 Z%.4f", "G01 Z%.4f", "G01 Z0", "F%.2f",
     "T%d", "M5", "M6", "(MSG, Change to tool dia=%.4f)", "M0", "M03", "M03 S%d"}

C3_Begins == Len(gcode) >= 6 /\ SubSeq(gcode, 1, 6) = C3_InitBlock

\* C3 as stated: the G-code of either generator is the initialization block,
\* then the per-path, per-drill and tool-change commands, then the
\* termination block retract to travel height, rapid to home, M05.
C3_InitThenBodyThenRetractHomeStop ==
    ((IsG2 \/ IsEx) /\ pc = "done") =>
        /\ C3_Begins
        /\ Len(gcode) >= 9
        /\ gcode[Len(gcode) - 2] = <<"G00 Z%.4f", inp.z_move, 0>>
        /\ C3_IsHome(gcode[Len(gcode) - 1])
        /\ gcode[Len(gcode)] = <<"M05", 0, 0>>

\* The last Z word of a G-code text.
C3_LastZ(g) ==
    LET zs == SelectSeq(g, LAMBDA l : l[1] \in {"G00 Z%.4f", "G01 Z%.4f", "G01 Z0"})
    IN zs[Len(zs)]

\* C3 amended: both generators begin with the initialization block; the
\* geometry generator ends with retract, home, M05; the drill generator ends
\* with home, M05 only, the tool being at travel height already; everything
\* else lies between the two blocks.
C3_InitThenBodyThenTermination ==
    ((IsG2 \/ IsEx) /\ pc = "done") =>
        LET n == IF IsG2 THEN 3 ELSE 2 IN
        /\ C3_Begins
        /\ Len(gcode) >= 6 + n
        /\ IsG2 => gcode[Len(gcode) - 2] = <<"G00 Z%.4f", inp.z_move, 0>>
        /\ C3_IsHome(gcode[Len(gcode) - 1])
        /\ gcode[Len(gcode)] = <<"M05", 0, 0>>
        /\ C3_LastZ(gcode) = <<"G00 Z%.4f", inp.z_move, 0>>
        /\ \A i \in 7..(Len(gcode) - n) :
              gcode[i][1] \in C3_BodyTemplates /\ ~C3_IsHome(gcode[i])

\* Witness of C3: a finished drill job with a tool change and a finished
\* geometry job with two paths.
C3_Witness ==
    \/ IsEx /\ pc = "done" /\ inp.toolchange /\ Len(gcode) > 20
    \/ IsG2 /\ pc = "done" /\ path_count = 2 /\ inp.spindlespeed # None

RECURSIVE C4_DrillBlocks(_, _)
\* The four commands of every drill of a tool, in file order.
C4_DrillBlocks(drills, tool) ==
    IF drills = <<>> THEN <<>>
    ELSE (IF drills[1].tool = tool
            THEN << <<"G00 X%.4fY%.4f", drills[1].point[1], drills[1].point[2]>>,
                    <<"G01 Z%.4f", inp.z_cut, 0>>, <<"G01 Z0", 0, 0>>,
                    <<"G00 Z%.4f", inp.z_move, 0>> >>
            ELSE <<>>)
         \o C4_DrillBlocks(Tail(drills), tool)

C4_ToolChange(tool) ==
    << <<"G00 Z%.4f", inp.toolchangez, 0>>, <<"T%d", ToolNumber(tool), 0>>, <<"M5", 0, 0>>,
       <<"M6", 0, 0>>, <<"(MSG, Change to tool dia=%.4f)", inp.extools[tool], 0>>,
       <<"M0", 0, 0>>,
       IF inp.spindlespeed # None THEN <<"M03 S%d", inp.spindlespeed, 0>> ELSE <<"M03", 0, 0>> >>

RECURSIVE C4_Body(_)
C4_Body(tools) ==
    IF tools = <<>> THEN <<>>
    ELSE (IF C4_DrillBlocks(inp.drills, tools[1]) = <<>> THEN <<>>
          ELSE (IF inp.toolchange THEN C4_ToolChange(tools[1]) ELSE <<>>)
               \o C4_DrillBlocks(inp.drills, tools[1]))
         \o C4_Body(Tail(tools))

\* C4: between the two blocks the drill generator writes, for each processed
\* tool with at least one drill, the tool-change block (when enabled) and
\* then the four commands of each of its drills in file order, each drill
\* once; a tool without drills writes nothing.
C4_ToolBlocks ==
    (IsEx /\ pc = "done") =>
        SubSeq(gcode, 7, Len(gcode) - 2) = C4_Body(out)

C4_Witness ==
    /\ IsEx /\ pc = "done" /\ inp.toolchange /\ out = <<"1">>
    /\ Len(inp.drills) = 2 /\ inp.drills[1].tool = "1" /\ inp.drills[2].tool = "1"
    /\ inp.drills[1].point # inp.drills[2].point

\* The G-code of the path in hand.
PathGcode == SubSeq(gcode, pathStart + 1, Len(gcode))

\* A multi-depth linear path has just been cut and lifted.
MultiDepthPathCut == IsG2 /\ pc = "next" /\ inp.multidepth /\ IsLinear(geo)

\* The depths of the plunges of a G-code text.
PlungeDepths(g) ==
    LET zs == SelectSeq(g, LAMBDA l : l[1] = "G01 Z%.4f") IN [k \in 1..Len(zs) |-> zs[k][2]]

\* ceil(|z_cut| / depthpercut)
C5_Passes == ((0 - inp.z_cut) + inp.depthpercut - 1) \div inp.depthpercut

\* C5: in multi-depth mode (z_cut < 0, depthpercut > 0) a linear path is cut
\* at -depthpercut, -2*depthpercut, ..., never deeper than z_cut, the last
\* pass at z_cut, in ceil(|z_cut| / depthpercut) passes.
C5_MultiDepthPasses ==
    (MultiDepthPathCut /\ inp.z_cut < 0 /\ inp.depthpercut > 0) =>
        LET ds == PlungeDepths(PathGcode) IN
        /\ Len(ds) = C5_Passes
        /\ \A k \in 1..Len(ds) : ds[k] >= inp.z_cut
        /\ \A k \in 1..(Len(ds) - 1) : ds[k] = 0 - k * inp.depthpercut
        /\ ds[Len(ds)] = inp.z_cut

C5_Witness ==
    /\ MultiDepthPathCut /\ inp.z_cut = -3 /\ inp.depthpercut = 2
    /\ PlungeDepths(PathGcode) = << -2, -3 >>

\* The XY targets of a G-code text.
XYTargets(g) ==
    LET xy == SelectSeq(g, LAMBDA l : l[1] \in {"G00 X%.4fY%.4f", "G01 X%.4fY%.4f"})
    IN [k \in 1..Len(xy) |-> <<xy[k][2], xy[k][3]>>]

C6_NPasses(g) == Len(SelectSeq(g, LAMBDA l : l[1] = "G00 X%.4fY%.4f"))

\* C6: in multi-depth mode the G-code of a linear path holds no retract to
\* travel height before its last line, which is the one lift; each pass
\* starts where the previous one ended, and the passes of an open path run
\* in alternating directions.
C6_NoLiftBetweenPasses ==
    MultiDepthPathCut =>
        LET g  == PathGcode
            xy == XYTargets(g)
            n  == C6_NPasses(g)
            m  == Len(xy) \div n
        IN /\ n >= 1 /\ Len(xy) = n * m
           /\ \A i \in 1..Len(g) : (g[i][1] = "G00 Z%.4f") <=> (i = Len(g))
           /\ g[Len(g)] = <<"G00 Z%.4f", inp.z_move, 0>>
           /\ \A k \in 2..n : xy[(k - 1) * m + 1] = xy[(k - 1) * m]
           /\ \A k \in 2..n : \A i \in 1..m :
                 geo.type = "LineString" => xy[(k - 1) * m + i] = xy[(k - 2) * m + (m + 1 - i)]

C6_Witness ==
    /\ MultiDepthPathCut /\ geo.type = "LineString" /\ C6_NPasses(PathGcode) = 3
    /\ Len(XYTargets(PathGcode)) = 9

ParseFailedInLine == status = "raised" /\ hist.last.k # "EOF"

C8_MissingApertureIsRecoverable ==
    \A e \in log :
        e.msg = "No aperture defined for curent path" =>
            ~(status = "raised" /\ raised.line = e.line)

RECURSIVE ApplyDrawn(_, _)
\* The shapes drawn, combined one by one in file order, each with the
\* polarity in force when it was drawn.
ApplyDrawn(acc, drawn) ==
    IF drawn = <<>> THEN acc
    ELSE ApplyDrawn(IF drawn[1].polarity = "D" THEN acc \cup drawn[1].shape
                                                ELSE acc \ drawn[1].shape,
                    Tail(drawn))

PolarityApplied == gerber.solid_geometry = ApplyDrawn({}, gerber.drawn)

\* C9: every flash, stroke and region is combined into the document with the
\* polarity in force when it was drawn, blocks in file order: after every
\* polarity line the buffer is empty and applied, and after end of input the
\* document holds everything drawn.
C9_PolarityBlocksInFileOrder ==
    /\ (parser = "gerber" /\ status = "parsing" /\ hist.last.k = "LP") =>
          gerber.poly_buffer = <<>> /\ PolarityApplied
    /\ (parser = "gerber" /\ status = "returned") => PolarityApplied

\* The same without follow.
PolarityBlocksWithoutFollow == gerber.follow \/ C9_PolarityBlocksInFileOrder

\* Without follow, dark and clear shapes reach the document.
PolarityBlocksReached ==
    /\ parser = "gerber" /\ status = "returned" /\ ~gerber.follow
    /\ Len(gerber.drawn) = 2 /\ gerber.drawn[1].polarity = "D" /\ gerber.drawn[2].polarity = "C"
    /\ gerber.solid_geometry # {}

\* C10: in the Excellon body every appended drill is at the latest X and the
\* latest Y written so far; a record that leaves an axis unknown appends no
\* drill, is logged, and parsing goes on.
C10_DrillAtLatestExplicitXY ==
    (parser = "excellon" /\ status = "parsing") =>
        /\ excellon.effect = "drill" =>
              excellon.drills[Len(excellon.drills)].point = excellon.explicit
        /\ excellon.effect = "skipped" =>
              /\ None \in {excellon.explicit[1], excellon.explicit[2]}
              /\ [msg |-> "Missing coordinates", line |-> line_num] \in log

\* The same while every record wrote its axes in one form.
LatestExplicitXYInOneForm == excellon.mixed \/ C10_DrillAtLatestExplicitXY

\* A drill at an inherited X, in one form.
InheritedXReached ==
    /\ parser = "excellon" /\ status = "parsing" /\ ~excellon.mixed
    /\ excellon.effect = "drill" /\ hist.last.x = Absent /\ Len(excellon.drills) = 2

\* An Excellon line has just been read: the step from the state before it
\* to the state after it.
ExcellonLineRead ==
    parser = "excellon" /\ status = "parsing" /\ hist'.count = hist.count + 1

\* C11: M48 enters the header and M95 leaves it, and no other line moves
\* between the sections.  A tool definition fills the tool table and a format
\* directive sets zeros and units only in the header; a tool selection sets
\* the selected tool and a coordinate record with both coordinates known adds
\* a drill only in the body.  A header line met in the body and a body line
\* met in the header change neither the tool table nor the drill list.
C11_HeaderAndBodySeparated ==
    [][ExcellonLineRead =>
          LET l == hist'.last
              a == excellon
              b == excellon'
              same == b.tools = a.tools /\ b.drills = a.drills
          IN /\ b.in_header = (IF l.k = "M48" THEN TRUE ELSE IF l.k = "M95" THEN FALSE
                                ELSE a.in_header)
             /\ (l.k = "T" /\ a.in_header) =>
                   /\ b.current_tool = a.current_tool /\ b.drills = a.drills
                   /\ IF l.c = None THEN b.tools = a.tools
                      ELSE \E i \in DOMAIN b.tools :
                              b.tools[i].name = ToolName(l.n) /\ b.tools[i].C = l.c
             /\ (l.k = "T" /\ ~a.in_header) =>
                   same /\ b.current_tool = ToolName(l.n)
             /\ (l.k \in {"INCH", "METRIC"} /\ a.in_header) =>
                   /\ b.zeros = (IF l.z = "" THEN a.zeros ELSE l.z)
                   /\ Upper(b.units) = (IF l.k = "INCH" THEN "IN" ELSE "MM")
             /\ (l.k \in {"INCH", "METRIC"} /\ ~a.in_header) =>
                   same /\ b.zeros = a.zeros /\ b.units = a.units
             /\ (l.k = "coords" /\ a.in_header) =>
                   /\ same /\ b.current_tool = a.current_tool
                   /\ b.current_x = a.current_x /\ b.current_y = a.current_y
             /\ (l.k = "coords" /\ ~a.in_header /\ status' = "parsing"
                                /\ b.current_x # None /\ b.current_y # None) =>
                   /\ b.tools = a.tools
                   /\ b.drills = Append(a.drills, [point |-> <<b.current_x, b.current_y>>,
                                                   tool |-> a.current_tool, scale |-> 0])
       ]_vars

\* Witness of C11: with a tool in the table and a drill in the list, a tool
\* definition was met in the body.
C11_Witness ==
    /\ parser = "excellon" /\ status = "parsing" /\ ~excellon.in_header
    /\ hist.last.k = "T" /\ hist.last.c # None
    /\ excellon.tools # <<>> /\ excellon.drills # <<>>
    /\ excellon.current_tool = ToolName(hist.last.n)

\* A coordinate record was met in the header after a drill was recorded.
C11_RecordInHeaderReached ==
    /\ parser = "excellon" /\ status = "parsing" /\ excellon.in_header
    /\ hist.last.k = "coords" /\ excellon.drills # <<>> /\ excellon.tools # <<>>

\* The file so far is in inch, leading-zero format, defines tool 1 with
\* diameter 0.0100, holds no record yet, and the line read is X01Y01 in the
\* body.
X01Y01 == ELine("coords", Digits(1, 1, 1), Digits(1, 1, 1), "", None, "")

SingleRecordX01Y01 ==
    /\ ExcellonLineRead /\ hist'.last = X01Y01 /\ ~excellon.in_header
    /\ excellon.zeros = "L" /\ Upper(excellon.units) = "IN"
    /\ excellon.tools = << [name |-> "1", C |-> 100, scale |-> 0] >>
    /\ excellon.current_x = None /\ excellon.current_y = None /\ excellon.drills = <<>>

\* C12 as stated: the single record X01Y01 of an inch, leading-zero file
\* with tool T01C0.0100 yields exactly one drill, at (0.0001, 0.0001)
\* (lengths are in units of 0.0001).
C12_OneDrillAtTenThousandth ==
    [][SingleRecordX01Y01 =>
          /\ Len(excellon'.drills) = 1
          /\ excellon'.drills[1].point = <<1, 1>>]_vars

\* C12 amended: the single record X01Y01 of an inch, leading-zero file with
\* tool T01C0.0100 yields exactly one drill, at (1.0, 1.0): one leading zero
\* and one digit place the decimal point after the two digits.
C12_OneDrillAtOne ==
    [][SingleRecordX01Y01 =>
          /\ Len(excellon'.drills) = 1
          /\ excellon'.drills[1].point = <<10000, 10000>>
          /\ excellon'.drills[1].scale = 0
          /\ status' = "parsing"]_vars

\* Witness of C12: the file M48, T01C0.0100, M95, T01, X01Y01 was read.
C12_Witness ==
    /\ parser = "excellon" /\ status = "parsing" /\ hist.count = 5 /\ hist.last = X01Y01
    /\ excellon.zeros = "L" /\ excellon.units = "in" /\ ~excellon.in_header
    /\ excellon.tools = << [name |-> "1", C |-> 100, scale |-> 0] >>
    /\ excellon.drills = << [point |-> <<10000, 10000>>, tool |-> "1", scale |-> 0] >>

\* C13: for a token of z leading zeros and d further digits of value v
\* (sign included in v, not in d), parse_number returns v / 10^(z + d - k) in
\* leading-zero mode, k = 2 for inch and 3 for metric, and v / 10000 for inch,
\* v / 1000 for metric in trailing-zero mode.  Lengths are in units of 0.0001,
\* and the quotient is compared after multiplying out the divisor.
C13_ParseNumberDecoding ==
    (call.fn = "parse_number" /\ ret.done) =>
        LET t == call.number_str
            inch == call.self.units \in {"in", "IN"}
            k == IF inch THEN 2 ELSE 3
            e == t.lz + t.ds - k
        IN IF call.self.zeros = "L"
             THEN IF e >= 0 THEN ret.value * Pow10(e) = t.v * 10000
                            ELSE ret.value = t.v * 10000 * Pow10(-e)
             ELSE IF inch THEN ret.value * 10000 = t.v * 10000
                          ELSE ret.value * 1000 = t.v * 10000

\* Witness of C13: the metric token 00125 was decoded in leading-zero mode
\* to 1.25, and would be 0.125 in trailing-zero mode.
C13_Witness ==
    /\ call.fn = "parse_number" /\ ret.done
    /\ call.self.zeros = "L" /\ call.self.units = "MM"
    /\ call.number_str = Digits(2, 3, 125) /\ ret.value = 12500

\* The document of an Excellon parse and the locals of parse_lines, without
\* the history the model adds.
ExcellonDocument(st) ==
    [tools |-> st.tools, drills |-> st.drills, units |-> st.units, zeros |-> st.zeros,
     solid_geometry |-> st.solid_geometry]

ExcellonLocals(st) ==
    [current_tool |-> st.current_tool, in_header |-> st.in_header,
     current_x |-> st.current_x, current_y |-> st.current_y]

\* The units a directive names, and the power of 25.4 that converts to them.
DirectiveUnits(l) == IF l.k \in {"M71", "METRIC"} THEN "MM" ELSE "IN"

DirectiveFactor(st, l) ==
    IF Upper(st.units) = DirectiveUnits(l) THEN 0
    ELSE IF DirectiveUnits(l) = "MM" THEN 1 ELSE -1

Rescaled(seq, e) == [i \in DOMAIN seq |-> [seq[i] EXCEPT !.scale = @ + e]]

\* A token without period is decoded in the units in effect before the line.
DecodedInUnitsInEffect(a, b, l) ==
    (l.k = "coords" /\ ~a.in_header /\ l.x.form = "digits" /\ l.y.form # "decimal") =>
        LET inch == Upper(a.units) = "IN"
        IN b.current_x = IF a.zeros = "L"
                           THEN l.x.v * Pow10((IF inch THEN 6 ELSE 7) - (l.x.lz + l.x.ds))
                           ELSE IF inch THEN l.x.v ELSE l.x.v * 10

\* C14: M71 or M72 converts the document in place and the parse goes on:
\* every drill point and every tool diameter is multiplied with the factor
\* between the units in effect and the units named, the units tag becomes the
\* one named, and tokens of later lines are decoded in the units in effect
\* then; a directive that names the units in effect changes nothing (the
\* list of circles, which every directive builds again, is not compared).
C14_UnitsDirectiveConvertsInPlace ==
    [][ExcellonLineRead =>
          LET l == hist'.last
              a == excellon
              b == excellon'
          IN /\ l.k \in {"M71", "M72"} =>
                   /\ status' = "parsing"
                   /\ Upper(b.units) = DirectiveUnits(l)
                   /\ b.drills = Rescaled(a.drills, DirectiveFactor(a, l))
                   /\ b.tools = Rescaled(a.tools, DirectiveFactor(a, l))
                   /\ ExcellonLocals(b) = ExcellonLocals(a)
                   /\ DirectiveFactor(a, l) = 0 =>
                         ExcellonDocument([b EXCEPT !.solid_geometry = NoGeometry])
                             = ExcellonDocument([a EXCEPT !.solid_geometry = NoGeometry])
             /\ DecodedInUnitsInEffect(a, b, l)
       ]_vars

\* What holds of M71 and M72: when every drill recorded so far names a tool
\* of the table, the directive rescales drills and tools, sets the tag, and
\* the parse goes on; the list of circles is built again in every case, also
\* when the units named are those in effect.
UnitsDirectiveWithKnownTools ==
    [][ExcellonLineRead =>
          LET l == hist'.last
              a == excellon
              b == excellon'
          IN /\ (l.k \in {"M71", "M72"}
                   /\ \A i \in DOMAIN a.drills : ToolDefined(a.tools, a.drills[i].tool)) =>
                   /\ status' = "parsing"
                   /\ Upper(b.units) = DirectiveUnits(l)
                   /\ b.drills = Rescaled(a.drills, DirectiveFactor(a, l))
                   /\ b.tools = Rescaled(a.tools, DirectiveFactor(a, l))
                   /\ ExcellonLocals(b) = ExcellonLocals(a)
                   /\ b.zeros = a.zeros
                   /\ b.solid_geometry.created /\ Len(b.solid_geometry.polys) = Len(b.drills)
                   /\ DirectiveFactor(a, l) = 0 => b.units = a.units
             /\ DecodedInUnitsInEffect(a, b, l)
       ]_vars

\* A drill recorded in inches was converted to millimetres by M71, together
\* with its tool: the file T01, X01Y01, M48, T01C0.0100, M71.
UnitsDirectiveConvertedReached ==
    /\ parser = "excellon" /\ status = "parsing" /\ excellon.units = "MM"
    /\ hist.last.k = "M71"
    /\ excellon.drills = << [point |-> <<10000, 10000>>, tool |-> "1", scale |-> 1] >>
    /\ excellon.tools = << [name |-> "1", C |-> 100, scale |-> 1] >>

\* After M71 the token 01 was decoded as 10.0, a length in millimetres.
DecodedAfterDirectiveReached ==
    /\ parser = "excellon" /\ status = "parsing" /\ excellon.units = "MM"
    /\ hist.last = X01Y01 /\ excellon.zeros = "L" /\ excellon.current_x = 100000

\* M72 met in a file in inches after a record without tool selection: the
\* parse is aborted by KeyError.
UnitsDirectiveAbortsReached ==
    /\ parser = "excellon" /\ status = "raised" /\ raised.type = "KeyError"
    /\ hist.last.k = "M72" /\ excellon.units = "in" /\ hist.count = 2

\* convert_units was called, once or more, with the units the document had.
SameUnitsCalled ==
    /\ call.fn = "convert_units" /\ ret.done
    /\ Upper(call.units) = Upper(call.before.units)

\* C15: convert_units with the units the document has, compared without
\* regard to case, returns 1.0 and leaves the document as it was, after one
\* call and after every further call.
C15_SameUnitsIsNoOp ==
    SameUnitsCalled => (ret.exc = "none" /\ ret.value = 0 /\ call.self = call.before)

\* What holds of convert_units with the units the document has: on a
\* Geometry, a Gerber and a CNCjob it returns 1.0 and changes nothing; on an
\* Excellon document it builds the circles again, so it raises when a drill
\* names no tool of the table, and otherwise returns 1.0 and leaves tag,
\* drills and tool diameters as they were, and the circles too when they
\* had been built before.
SameUnitsKeepsUnitsAndSizes ==
    SameUnitsCalled =>
        IF call.self.cls # "Excellon"
          THEN ret.exc = "none" /\ ret.value = 0 /\ call.self = call.before
          ELSE /\ ExcellonDocument([call.self EXCEPT !.solid_geometry = NoGeometry])
                    = ExcellonDocument([call.before EXCEPT !.solid_geometry = NoGeometry])
               /\ ret.exc = "none" =>
                     /\ ret.value = 0 /\ call.self.solid_geometry.created
                     /\ call.before.solid_geometry.created => call.self = call.before
               /\ ret.exc = "none" <=>
                     \A i \in DOMAIN call.before.drills :
                        ToolDefined(call.before.tools, call.before.drills[i].tool)

\* convert_units("in") was called MaxCalls times on an Excellon document in
\* "IN" whose circles had been built, and on a CNCjob.
SameUnitsRepeatedReached ==
    /\ SameUnitsCalled /\ ret.calls = MaxCalls /\ call.units = "in" /\ call.before.units = "IN"
    /\ call.self.cls = "Excellon" /\ Len(call.self.solid_geometry.polys) = 2

\* convert_units with the units in effect raised KeyError.
SameUnitsRaisesReached ==
    /\ SameUnitsCalled /\ ret.exc = "KeyError" /\ call.self.cls = "Excellon"

\* A macro was evaluated for a flash.
MacroEvaluated == call.fn = "create_flash_geometry" /\ ret.done

\* What a reference means at part j of a macro, computed on the parts and
\* not on the text: the value of the latest definition of exactly that name
\* before part j, else the modifier of that index, else nothing.
Unbound == None

RECURSIVE BoundAt(_, _, _, _)
RECURSIVE Meaning(_, _, _, _)
BoundAt(raw, mods, j, name) ==
    IF j = 1
      THEN IF \E i \in DOMAIN mods : Str(i) = name
             THEN mods[CHOOSE i \in DOMAIN mods : Str(i) = name] ELSE Unbound
    ELSE IF raw[j - 1].k = "var" /\ raw[j - 1].name = name
      THEN Meaning(raw, mods, j - 1, raw[j - 1].text)
    ELSE BoundAt(raw, mods, j - 1, name)

Meaning(raw, mods, j, text) ==
    IF text[1] = Ch("$")
      THEN LET name == [i \in 1..(Len(text) - 1) |-> text[i + 1].ch]
           IN IF BoundAt(raw, mods, j, name) = Unbound THEN 0 ELSE BoundAt(raw, mods, j, name)
      ELSE Literal(text)

\* The same with the modifiers taking precedence over the definitions.
ModifierFirst(raw, mods, j, text) ==
    IF text[1] = Ch("$") /\ \E i \in DOMAIN mods : Ref(Str(i)) = text
      THEN mods[CHOOSE i \in DOMAIN mods : Ref(Str(i)) = text]
      ELSE Meaning(raw, mods, j, text)

\* The position in the macro of its p-th primitive.
PrimitiveParts(raw) == {j \in DOMAIN raw : raw[j].k = "prim"}

PartOfPrimitive(raw, p) ==
    CHOOSE j \in PrimitiveParts(raw) : Cardinality({i \in PrimitiveParts(raw) : i <= j}) = p

\* C16: a primitive sees for $k, k within the modifiers supplied, the
\* modifier, also after a statement $k=expr of the macro.
C16_ModifiersOverrideDefinitions ==
    MacroEvaluated =>
        \A p \in DOMAIN ret.primitives :
            LET j == PartOfPrimitive(call.aperture.macro, p)
                elements == call.aperture.macro[j].elements
            IN \A i \in DOMAIN elements :
                  ret.primitives[p][i] =
                      ModifierFirst(call.aperture.macro, call.aperture.modifiers, j, elements[i])

\* What holds instead: the modifiers are bound to $1..$N before the macro
\* is read, and a statement $k=expr binds $k anew, so that later primitives
\* see the value of the statement.
DefinitionsOverrideModifiers ==
    MacroEvaluated =>
        \A p \in DOMAIN ret.primitives :
            LET j == PartOfPrimitive(call.aperture.macro, p)
                elements == call.aperture.macro[j].elements
            IN \A i \in DOMAIN elements :
                  ret.primitives[p][i] =
                      Meaning(call.aperture.macro, call.aperture.modifiers, j, elements[i])

\* The macro $1=7, then a circle of diameter $1, was evaluated with the
\* modifier 3: the circle has diameter 7.
DefinitionOverrodeModifierReached ==
    /\ MacroEvaluated /\ call.aperture.modifiers = <<3>>
    /\ call.aperture.macro = << Variable(<<"1">>, Text(<<"7">>)),
                                Primitive(<< Text(<<"1">>), Text(<<"1">>), Ref(<<"1">>) >>) >>
    /\ ret.primitives = << <<1, 1, 7>> >>

\* C17: every reference $N stands for the value bound to exactly N, a
\* reference to a variable without binding stands for 0 whatever its index,
\* and so every primitive of the macro is evaluated.
C17_ExactSubstitutionAndZeroDefault ==
    MacroEvaluated =>
        /\ Len(ret.primitives) = Cardinality(PrimitiveParts(call.aperture.macro))
        /\ DefinitionsOverrideModifiers

\* What holds: the references of the primitives that were evaluated stand
\* for the value bound to exactly their name ($10 never for that of $1),
\* or for 0 when the name is one character without binding; a reference
\* without binding whose name is longer stays in the text, and evaluating
\* the text raises SyntaxError.
UnboundLongNameRaises ==
    MacroEvaluated =>
        /\ DefinitionsOverrideModifiers
        /\ ret.exc \in {"none", "KeyError"} =>
              Len(ret.primitives) = Cardinality(PrimitiveParts(call.aperture.macro))
        /\ ret.exc \notin {"none", "KeyError"} =>
              /\ ret.exc = "SyntaxError"
              /\ \E j \in DOMAIN call.aperture.macro :
                    LET part == call.aperture.macro[j]
                        texts == IF part.k = "var" THEN << part.text >> ELSE part.elements
                    IN \E i \in DOMAIN texts :
                          /\ texts[i][1] = Ch("$") /\ Len(texts[i]) > 2
                          /\ BoundAt(call.aperture.macro, call.aperture.modifiers, j,
                                     [n \in 1..(Len(texts[i]) - 1) |-> texts[i][n + 1].ch]) = Unbound

\* $10 was bound by a tenth modifier while $1 was bound too, and a circle of
\* diameter $10 got the tenth modifier.
ExactNameReached ==
    /\ MacroEvaluated /\ Len(call.aperture.modifiers) = 10
    /\ call.aperture.macro = << Primitive(<< Text(<<"1">>), Text(<<"1">>), Ref(<<"1", "0">>) >>) >>
    /\ ret.primitives = << <<1, 1, 6>> >> /\ ret.exc = "none"

\* A circle of diameter $10 with one modifier: the evaluation raised.
UnboundLongNameReached ==
    /\ MacroEvaluated /\ call.aperture.modifiers = <<3>>
    /\ call.aperture.macro = << Primitive(<< Text(<<"1">>), Text(<<"1">>), Ref(<<"1", "0">>) >>) >>
    /\ ret.exc = "SyntaxError"

\* A primitive of a code that names no maker was read.
UnknownPrimitiveCode ==
    MacroEvaluated /\ \E p \in DOMAIN ret.primitives : ret.primitives[p][1] \notin Makers

\* C18: a primitive of unknown code ends the evaluation of the macro only:
\* the flash is made, it is empty, and the error is reported.
C18_UnknownPrimitiveGivesEmptyAperture ==
    UnknownPrimitiveCode => (ret.exc = "none" /\ ret.flash = {} /\ ret.warn # {})

\* What holds: when all parts of the macro were read, the lookup of the
\* maker raises KeyError; no flash is returned, and nothing is reported by
\* the macro or by the flash.
UnknownPrimitiveRaisesKeyError ==
    UnknownPrimitiveCode =>
        /\ ret.exc \in {"KeyError", "SyntaxError"} /\ ret.flash = {}
        /\ Len(ret.primitives) = Cardinality(PrimitiveParts(call.aperture.macro)) =>
              ret.exc = "KeyError"
        /\ ret.warn \subseteq {"Unknown syntax of aperture macro part"}

\* A macro of a valid circle and a primitive of code 8 was flashed.
UnknownPrimitiveReached ==
    /\ UnknownPrimitiveCode /\ ret.exc = "KeyError"
    /\ call.aperture.macro[1] = Primitive(<< Text(<<"1">>), Text(<<"1">>), Ref(<<"1">>) >>)
    /\ call.aperture.modifiers = <<3>>

\* A Gerber line has just been read: the step from the state before it to
\* the state after it.
GerberLineRead ==
    parser = "gerber" /\ status = "parsing" /\ hist'.count = hist.count + 1

\* The line closes the contour of a region in progress: G37, or a line with
\* coordinates whose operation code, given or kept, is D02.
ClosesContour(a, l) ==
    /\ a.making_region /\ ~HasNone(a.path)
    /\ \/ l.k = "G37"
       \/ /\ l.k = "lin" /\ l.x # None /\ l.y # None
          /\ (IF l.d # None THEN l.d ELSE a.current_operation_code) = 2

\* C19: a line that closes a region contour does not abort the parse; it
\* adds the polygon of the contour's points when they are three or more,
\* whether or not an aperture is selected, and adds nothing when they are
\* fewer (nothing is added with follow).  The region flag is set by G36 and
\* cleared by G37 and by no other line.
C19_RegionContoursNeverAbort ==
    [][GerberLineRead =>
          LET l == hist'.last
              a == gerber
              b == gerber'
          IN /\ status' = "parsing" =>
                   b.making_region = (IF l.k = "G36" THEN TRUE ELSE IF l.k = "G37" THEN FALSE
                                      ELSE a.making_region)
             /\ ClosesContour(a, l) =>
                   /\ status' = "parsing"
                   /\ b.poly_buffer = IF Len(a.path) >= 3 /\ ~a.follow
                                        THEN Append(a.poly_buffer, Cells(a.path))
                                        ELSE a.poly_buffer
       ]_vars

\* What holds: the same, but for a contour of exactly two points closed by
\* D02 without follow, which raises ValueError and aborts the parse.
TwoPointContourClosedByPenUpAborts ==
    [][GerberLineRead =>
          LET l == hist'.last
              a == gerber
              b == gerber'
              aborts == l.k = "lin" /\ Len(a.path) = 2 /\ ~a.follow
          IN /\ status' = "parsing" =>
                   b.making_region = (IF l.k = "G36" THEN TRUE ELSE IF l.k = "G37" THEN FALSE
                                      ELSE a.making_region)
             /\ (ClosesContour(a, l) /\ ~aborts) =>
                   /\ status' = "parsing"
                   /\ b.poly_buffer = IF Len(a.path) >= 3 /\ ~a.follow
                                        THEN Append(a.poly_buffer, Cells(a.path))
                                        ELSE a.poly_buffer
             /\ (ClosesContour(a, l) /\ aborts) =>
                   /\ status' = "raised" /\ raised'.cause = "ValueError"
                   /\ b.poly_buffer = a.poly_buffer
       ]_vars

\* A contour of three points was closed by D02, with no aperture defined,
\* and its polygon was added.
ContourClosedByPenUpReached ==
    /\ parser = "gerber" /\ status = "parsing" /\ gerber.making_region /\ ~gerber.follow
    /\ hist.last.k = "lin" /\ hist.last.d = 2 /\ gerber.apertures = {}
    /\ gerber.poly_buffer = << {<<0, 0>>, <<1, 0>>, <<1, 1>>} >>

\* G36, X0Y0D02, X1Y0D01, X1Y1D02: the parse was aborted at the fourth line.
TwoPointContourAbortsReached ==
    /\ parser = "gerber" /\ status = "raised" /\ raised.cause = "ValueError"
    /\ raised.line = 4 /\ gerber.making_region /\ Len(gerber.path) = 2

\* C20: a line of no kind of the format does not end the parse and leaves
\* the parser's variables and the document as they were, in the Gerber and
\* in the Excellon parser.
C20_UnrecognizedLineHasNoEffect ==
    [][/\ (GerberLineRead /\ hist'.last.k = "unknown") =>
             (status' = "parsing" /\ gerber' = gerber)
       /\ (ExcellonLineRead /\ hist'.last.k \in {"unknown", "comment"}) =>
             /\ status' = "parsing"
             /\ ExcellonDocument(excellon') = ExcellonDocument(excellon)
             /\ ExcellonLocals(excellon') = ExcellonLocals(excellon)
      ]_vars

\* What holds: a line that none of the parser's patterns matches is logged
\* and changes nothing; a comment of the Excellon body that holds the letter
\* X or Y is matched by the pattern for records and ends the parse with
\* ValueError, the document and the variables being as before.
UnmatchedLineHasNoEffect ==
    [][/\ (GerberLineRead /\ hist'.last.k = "unknown") =>
             /\ status' = "parsing" /\ gerber' = gerber
             /\ [msg |-> "Line ignored", line |-> line_num'] \in log'
       /\ (ExcellonLineRead /\ hist'.last.k \in {"unknown", "comment"}) =>
             /\ ExcellonDocument(excellon') = ExcellonDocument(excellon)
             /\ ExcellonLocals(excellon') = ExcellonLocals(excellon)
             /\ IF hist'.last.k = "comment" /\ ~excellon.in_header
                  THEN status' = "raised" /\ raised'.type = "ValueError"
                  ELSE /\ status' = "parsing"
                       /\ [msg |-> "Line ignored", line |-> line_num'] \in log'
      ]_vars

\* An unknown line was read by the Gerber parser while a path was pending
\* and by the Excellon parser after a drill was recorded.
UnmatchedLineReached ==
    /\ status = "parsing" /\ hist.last.k = "unknown"
    /\ \/ parser = "gerber" /\ Len(gerber.path) > 1
       \/ parser = "excellon" /\ excellon.drills # <<>>

\* A comment with the letter Y ended the parse of an Excellon body.
CommentAbortsReached ==
    /\ parser = "excellon" /\ status = "raised" /\ hist.last.k = "comment"
    /\ raised.type = "ValueError" /\ excellon.drills # <<>>

(***************************************************************************)
(*                      gcode_parse: kinds and segments                    *)
(***************************************************************************)
\* gcode_parse was called and returned.
GcodeParsed == call.fn = "gcode_parse" /\ ret.done /\ ret.exc = "none"

\* The words of the i-th line of the text parsed.
WordsAt(i) == codes_split(call.self.gcode[i])

IsUnitsLine(i) == Has(WordsAt(i), "G") /\ WordsAt(i)["G"] \in {20, 21}

\* The value of a word in effect once line i is read: that of the last line
\* up to i that carries the word, 0 before the first.
InEffect(code, i) ==
    LET js == {j \in 1..i : Has(WordsAt(j), code) /\ ~IsUnitsLine(j)}
    IN IF js = {} THEN 0
       ELSE WordsAt(CHOOSE j \in js : \A m \in js : m <= j)[code]

\* The lines that move the tool in X or Y, in the order of the text.
MoveIdx ==
    SelectSeq([i \in 1..Len(call.self.gcode) |-> i],
              LAMBDA i : (Has(WordsAt(i), "X") \/ Has(WordsAt(i), "Y"))
                         /\ InEffect("G", i) \in {0, 1})

PointAt(i) == <<InEffect("X", i), InEffect("Y", i)>>

ZWord(i) == Has(WordsAt(i), "Z")

ZChangeWithXY(i) ==
    /\ Has(WordsAt(i), "Z") /\ (Has(WordsAt(i), "X") \/ Has(WordsAt(i), "Y"))
    /\ WordsAt(i)["Z"] # InEffect("Z", i - 1)

\* The moves that begin a segment when the lines satisfying Boundary end
\* the segment in hand: the first move, and each move with a boundary line
\* after the move before it.
SegmentStarts(Boundary(_)) ==
    SelectSeq([k \in 1..Len(MoveIdx) |-> k],
              LAMBDA k : k = 1 \/ \E j \in (MoveIdx[k - 1] + 1)..MoveIdx[k] : Boundary(j))

\* The moves of the n-th segment, as positions in MoveIdx.
SegmentMoves(Boundary(_), n) ==
    LET st == SegmentStarts(Boundary)
    IN st[n]..(IF n < Len(st) THEN st[n + 1] - 1 ELSE Len(MoveIdx))

\* The points of the n-th segment: where the tool was, then its moves.
SegmentPoints(Boundary(_), n) ==
    LET ms == SegmentMoves(Boundary, n)
        first == CHOOSE k \in ms : \A m \in ms : k <= m
        before == IF first = 1 THEN <<0, 0>> ELSE PointAt(MoveIdx[first - 1])
    IN << before >> \o [k \in 1..Cardinality(ms) |-> PointAt(MoveIdx[first + k - 1])]

SegmentsBy(Boundary(_)) ==
    [n \in 1..Len(SegmentStarts(Boundary)) |-> SegmentPoints(Boundary, n)]

ParsedPaths == [n \in 1..Len(ret.gcode_parsed) |-> ret.gcode_parsed[n].geom.coords]

\* The last move of the n-th segment parsed, as a line number.
LastMoveOf(n) ==
    LET ms == SegmentMoves(ZWord, n)
    IN MoveIdx[CHOOSE k \in ms : \A m \in ms : m <= k]

\* C21: every segment gcode_parse produces has a kind of two letters: T when
\* the Z height in effect at the moves of the segment is above 0 and C
\* otherwise, then F when the motion code in effect at its last move is G0
\* and S otherwise.
C21_SegmentKinds ==
    GcodeParsed =>
        \A n \in 1..Len(ret.gcode_parsed) :
            /\ ret.gcode_parsed[n].kind \in {"T", "C"} \X {"F", "S"}
            /\ \A k \in SegmentMoves(ZWord, n) :
                 ret.gcode_parsed[n].kind[1] = "T" <=> InEffect("Z", MoveIdx[k]) > 0
            /\ ret.gcode_parsed[n].kind[2] = "F" <=> InEffect("G", LastMoveOf(n)) = 0

\* A fast travel above the work is followed by a cut at feed rate.
C21_Witness ==
    /\ GcodeParsed
    /\ \E n \in 2..Len(ret.gcode_parsed) :
         /\ ret.gcode_parsed[n - 1].kind = <<"T", "F">>
         /\ ret.gcode_parsed[n].kind = <<"C", "S">>

\* C22: the segments gcode_parse produces are the runs of moves between the
\* lines where Z changes while X or Y is present, in the order of the lines.
C22_SegmentsEndWhereZChangesWithXY ==
    GcodeParsed => ParsedPaths = SegmentsBy(ZChangeWithXY)

\* C22 as the code has it: every line that carries a Z word, with or
\* without X or Y and whether or not the height changes, ends the segment in
\* hand when it has a move; the segments are the runs of moves between such
\* lines in the order of the lines, each starting where the tool was, and
\* all moves of a segment are made at one Z height.
C22_SegmentsEndAtEveryZWord ==
    GcodeParsed =>
        /\ ParsedPaths = SegmentsBy(ZWord)
        /\ \A n \in 1..Len(ret.gcode_parsed) :
             \A k, m \in SegmentMoves(ZWord, n) :
                 InEffect("Z", MoveIdx[k]) = InEffect("Z", MoveIdx[m])

\* A line with Z alone ended a segment, and a later one began.
C22_Witness ==
    /\ GcodeParsed
    /\ Len(ret.gcode_parsed) >= 2
    /\ \E i \in 1..Len(call.self.gcode) :
         /\ ZWord(i) /\ ~ZChangeWithXY(i)
         /\ \E k \in 2..Len(MoveIdx) : MoveIdx[k - 1] < i /\ i < MoveIdx[k]

\* A line where Z changes while X is present ended a segment.
ZChangeWithXYSplitReached ==
    /\ GcodeParsed
    /\ \E i \in 1..Len(call.self.gcode) :
         /\ ZChangeWithXY(i)
         /\ \E k \in 2..Len(MoveIdx) : MoveIdx[k - 1] < i /\ i <= MoveIdx[k]

(***************************************************************************)
(*              G-code of a square, generated and parsed again             *)
(***************************************************************************)
\* The integer part of the square root
ISqrt(n) == CHOOSE r \in 0..n : r * r <= n /\ n < (r + 1) * (r + 1)

RECURSIVE PathLength(_)
\* The length of a path, to the unit below for each of its moves
PathLength(c) ==
    IF Len(c) < 2 THEN 0 ELSE ISqrt(Dist2(c[1], c[2])) + PathLength(Tail(c))

RECURSIVE TotalLength(_)
TotalLength(paths) ==
    IF paths = <<>> THEN 0 ELSE PathLength(paths[1].geom.coords) + TotalLength(Tail(paths))

PointsOfPaths(paths) ==
    UNION { {paths[n].geom.coords[k] : k \in 1..Len(paths[n].geom.coords)} : n \in 1..Len(paths) }

\* bounds of a set of points: (minx, miny, maxx, maxy)
Bounds(P) ==
    << CHOOSE v \in {q[1] : q \in P} : \A q \in P : v <= q[1],
       CHOOSE v \in {q[2] : q \in P} : \A q \in P : v <= q[2],
       CHOOSE v \in {q[1] : q \in P} : \A q \in P : v >= q[1],
       CHOOSE v \in {q[2] : q \in P} : \A q \in P : v >= q[2] >>

Abs(v) == IF v < 0 THEN -v ELSE v

\* A closed path of four sides parallel to the axes and of equal length
IsSquare(g) ==
    /\ g.type = "LinearRing" /\ Len(g.coords) = 5 /\ g.coords[1] = g.coords[5]
    /\ \E d \in 1..100 :
         /\ g.coords[2] = <<g.coords[1][1] + d, g.coords[1][2]>>
         /\ g.coords[3] = <<g.coords[1][1] + d, g.coords[1][2] + d>>
         /\ g.coords[4] = <<g.coords[1][1], g.coords[1][2] + d>>

\* generate_from_geometry_2 was called on one square, with one pass and no
\* simplification, and gcode_parse was called on its G-code.
SquareParsed ==
    /\ IsG2 /\ pc = "parsed" /\ Len(inp.flat) = 1 /\ IsSquare(inp.flat[1])
    /\ ~inp.multidepth /\ inp.tolerance = 0

\* Within the discretization of the coordinate format: half a last digit
\* for each coordinate of a corner, so a last digit for each of the four
\* sides, and a unit for each move measured.
Matches(paths, sq) ==
    /\ paths # <<>>
    /\ Abs(TotalLength(paths) - PathLength(sq.coords)) <= 4 * Res + 4
    /\ \A i \in 1..4 : 2 * Abs(Bounds(PointsOfPaths(paths))[i]
                                - Bounds({sq.coords[k] : k \in 1..5})[i]) <= Res

CutPaths(paths) == SelectSeq(paths, LAMBDA g : g.kind[1] = "C")

\* C23: the paths parsed from the G-code generated for a square have, taken
\* together, the perimeter of the square as total length and its bounds as
\* bounding box, within the discretization.
C23_PathSetMatchesSquare == SquareParsed => Matches(out, inp.flat[1])

\* C23 as the code has it: the cutting paths (kind C) parsed from the G-code
\* generated for a square have the perimeter of the square as total length
\* and its bounds as bounding box, within the discretization; the set also
\* holds the fast travel from the origin to the square before them and the
\* one back to the origin after them.
C23_CutPathsMatchSquare ==
    SquareParsed =>
        /\ Matches(CutPaths(out), inp.flat[1])
        /\ Len(out) = 3
        /\ out[1].kind = <<"T", "F">> /\ out[1].geom.coords[1] = <<0, 0>>
        /\ out[2].kind = <<"C", "S">> /\ Len(out[2].geom.coords) = 5
        /\ out[3].kind = <<"T", "F">> /\ Last(out[3].geom.coords) = <<0, 0>>

\* A square whose corners are not multiples of the last digit was generated
\* and parsed.
C23_Witness ==
    /\ SquareParsed
    /\ \E k \in 1..5 : Round4(inp.flat[1].coords[k][1]) # inp.flat[1].coords[k][1]
    /\ CutPaths(out) # <<>>

(***************************************************************************)
(*                 The tools the drill generator processes                 *)
(***************************************************************************)
\* The drill generator got past the choice of its tools, or left there.
ToolsChosen == IsEx /\ pc # "begin"

\* C24: with tools="all" the drill generator processes all tools of the
\* document in ascending order of diameter, however many tools are defined.
C24_AllToolsAscendingByDiameter ==
    (ToolsChosen /\ inp.tools = <<"all">>) =>
        /\ pc # "TypeError"
        /\ Len(out) = Cardinality(DOMAIN inp.extools)
        /\ {out[k] : k \in 1..Len(out)} = DOMAIN inp.extools
        /\ \A i, j \in 1..Len(out) : i < j => inp.extools[out[i]] <= inp.extools[out[j]]

\* With two tools defined and tools="all" the generator left with TypeError
\* before any G-code was written.
AllOfTwoToolsRaisesReached ==
    /\ IsEx /\ pc = "TypeError" /\ inp.tools = <<"all">>
    /\ Cardinality(DOMAIN inp.extools) = 2 /\ gcode = <<>>

\* C25: with an explicit selection the drill generator processes exactly the
\* selected tools the document defines, in the order of the selection.
C25_SelectedToolsInCallerOrder ==
    (ToolsChosen /\ inp.tools # <<"all">>) =>
        /\ pc # "TypeError"
        /\ out = SelectSeq(inp.tools, LAMBDA t : t \in DOMAIN inp.extools)

\* A tool that is defined, has a drill and was selected is not processed:
\* the generator finished with the start and end blocks only.
SelectedToolDroppedReached ==
    /\ IsEx /\ pc = "done" /\ inp.tools = <<"1">> /\ DOMAIN inp.extools = {"1"}
    /\ \E k \in 1..Len(inp.drills) : inp.drills[k].tool = "1"
    /\ out = <<>> /\ gcode = InitialGcode(inp) \o FinishExcellon(inp)

(***************************************************************************)
(*                    The formats of the G-code written                    *)
(***************************************************************************)
\* The generator finished: self.gcode is complete.
Generated == (IsG2 \/ IsEx) /\ pc \in {"done", "parsed"}

\* The words a line written from a template carries.
WordsOf(template) == DOMAIN codes_split(Ln(template, 0, 0))

\* A line carrying X or Y is a G00 or G01 followed by the coordinate
\* format; a Z word has four decimals and a feed rate two.
WellFormatted(template) ==
    /\ ({"X", "Y"} \cap WordsOf(template) # {}) =>
           template \in {"G00 X%.4fY%.4f", "G01 X%.4fY%.4f"}
    /\ "Z" \in WordsOf(template) => template \in {"G00 Z%.4f", "G01 Z%.4f"}
    /\ "F" \in WordsOf(template) => template = "F%.2f"

\* C26: every XY pair of the generated G-code, the final rapid to home
\* included, is written with the coordinate format, and every feed rate and
\* Z word with a fixed number of decimals.
C26_CoordinatesAndWordsFormatted ==
    Generated => \A k \in 1..Len(gcode) : WellFormatted(gcode[k][1])

\* What does hold: the lines not written with their format are the rapid to
\* home of the geometry generator and the move up to Z0 of the drill
\* generator.
FormattedButHomeAndZero ==
    Generated =>
        \A k \in 1..Len(gcode) :
            \/ WellFormatted(gcode[k][1])
            \/ IsG2 /\ k = Len(gcode) - 1 /\ gcode[k] = Ln("G00 X0Y0", 0, 0)
            \/ IsEx /\ gcode[k] = Ln("G01 Z0", 0, 0)

\* The geometry generator wrote its rapid to home after cutting a path.
HomeRapidUnformattedReached ==
    /\ IsG2 /\ pc = "done" /\ path_count >= 1
    /\ gcode[Len(gcode) - 1] = Ln("G00 X0Y0", 0, 0)

\* The drill generator wrote its rapid to home with the coordinate format
\* and its move up to Z0 without decimals.
ZeroHeightUnformattedReached ==
    /\ IsEx /\ pc = "done"
    /\ gcode[Len(gcode) - 1] = G00XY(<<0, 0>>)
    /\ \E k \in 1..Len(gcode) : gcode[k] = Ln("G01 Z0", 0, 0)

(***************************************************************************)
(*                            Geometry.flatten                             *)
(***************************************************************************)
Flattened == call.fn = "flatten" /\ ret.done

RECURSIVE HasList(_)
\* The geometry is, or holds at some depth, a Python list.
HasList(g) == g.type = "list" \/ \E k \in 1..Len(g.parts) : HasList(g.parts[k])

RECURSIVE DepthFirst(_, _)
\* The primitives of a geometry in depth-first order; with pathonly the
\* rings of a polygon, exterior first, in its place.
DepthFirst(g, pathonly) ==
    IF g.type \in {"list", "MultiPolygon", "GeometryCollection"}
         \/ (pathonly /\ g.type = "Polygon")
      THEN IF g.parts = <<>> THEN <<>>
           ELSE DepthFirst(g.parts[1], pathonly)
                \o DepthFirst([g EXCEPT !.parts = Tail(g.parts)], pathonly)
      ELSE << g >>

\* C27: after flatten, flat_geometry holds no list and no multi-part
\* collection, whatever solid_geometry was; its elements are the primitives
\* in depth-first order, and with pathonly each polygon is replaced by its
\* exterior ring followed by its interior rings.
C27_FlattenGivesFlatPrimitives ==
    Flattened =>
        /\ \A k \in 1..Len(ret.flat_geometry) :
             /\ ret.flat_geometry[k].type \notin {"list", "MultiPolygon", "GeometryCollection"}
             /\ call.pathonly => ret.flat_geometry[k].type # "Polygon"
        /\ ret.flat_geometry = DepthFirst(call.geometry, call.pathonly)

\* What does hold: the statement for a solid_geometry without Python lists,
\* a single geometry or multi-part collections nested in one another.
FlattenWithoutLists ==
    (Flattened /\ ~HasList(call.geometry)) =>
        /\ \A k \in 1..Len(ret.flat_geometry) :
             /\ ret.flat_geometry[k].type \notin {"list", "MultiPolygon", "GeometryCollection"}
             /\ call.pathonly => ret.flat_geometry[k].type # "Polygon"
        /\ ret.flat_geometry = DepthFirst(call.geometry, call.pathonly)

\* A list of two paths was flattened: flat_geometry holds the list itself.
ListKeptWholeReached ==
    /\ Flattened
    /\ call.geometry.type = "list" /\ Len(call.geometry.parts) = 2
    /\ \A k \in 1..2 : call.geometry.parts[k].type = "LineString"
    /\ ret.flat_geometry = << call.geometry >>

\* A collection holding a polygon and a nested collection was flattened to
\* its paths.
CollectionFlattenedReached ==
    /\ Flattened /\ call.pathonly /\ ~HasList(call.geometry)
    /\ call.geometry.type = "GeometryCollection" /\ Len(call.geometry.parts) = 2
    /\ call.geometry.parts[1].type = "Polygon"
    /\ call.geometry.parts[2].type = "GeometryCollection"
    /\ Len(ret.flat_geometry) >= 4

(***************************************************************************)
(*                              WorkerStack                                *)
(***************************************************************************)
\* The tasks handed to a worker and not yet reported completed to the stack.
InFlight(ts, w) == {k \in 1..Len(ts) : ts[k].worker_name = w /\ ts[k].state # "completed"}

\* The workers a task was handed to.
HandedTo(ts, k) == {WorkerNames[i] : i \in 1..2} \cap {ts[k].worker_name}

Counted ==
    \A w \in DOMAIN load : load[w] = Cardinality(InFlight(tasks, w)) /\ load[w] >= 0

\* C28: add_task hands each task to exactly one of the two workers, one
\* whose number of tasks in flight is minimal when the task is submitted;
\* whatever the order of submissions and completion notices, the load
\* counter of each worker is the number of its tasks in flight and never
\* negative.
C28_LeastLoadedWorkerAndExactCounters ==
    /\ []Counted
    /\ [][Len(tasks') = Len(tasks) + 1 =>
            /\ Cardinality(HandedTo(tasks', Len(tasks'))) = 1
            /\ \A w \in DOMAIN load :
                 Cardinality(InFlight(tasks, Last(tasks').worker_name))
                     <= Cardinality(InFlight(tasks, w))]_vars

\* Both workers are busy, the second with two tasks, after a task of the
\* first was reported completed and another has finished without its notice
\* having arrived.
C28_Witness ==
    /\ load = ("Slogger-0" :> 1) @@ ("Slogger-1" :> 2)
    /\ \E k \in 1..Len(tasks) : tasks[k].state = "completed"
    /\ \E k \in 1..Len(tasks) : tasks[k].state = "failed"

(***************************************************************************)
(*                FlatCAMRTreeStorage: removal by identity                 *)
(***************************************************************************)
IsStorage == op = "storage"

\* The objects inserted and not removed, by the history of the operations.
Live == {inp.flat[k] : k \in 1..path_count} \ {inp.flat[out[i]] : i \in 1..Len(out)}

\* The end points of the live objects that are nearest to p.
ClosestLive(p) ==
    {<<o, i>> \in Live \X (1..2) :
        \A o2 \in Live, j \in 1..2 : Dist2(get_pts(o)[i], p) <= Dist2(get_pts(o2)[j], p)}

\* C29: once an object is removed, nearest does not return it and
\* get_objects does not yield it; every other object inserted and not
\* removed, one with the same end points as a removed object included, is
\* yielded, and is what nearest returns, with the matching point, when an
\* end point of it is nearest to the query point (any one of them when
\* several are equally near).
C29_RemoveByIdentity ==
    IsStorage =>
        /\ {get_objects(objects)[k] : k \in 1..Len(get_objects(objects))} = Live
        /\ pc = "nearest" => /\ geo \in Live
                             /\ \E i \in 1..2 : <<geo, i>> \in ClosestLive(current_pt)
                                                 /\ pt = get_pts(geo)[i]
        /\ \A p \in {<<0, 0>>, <<2, 1>>, <<1, 0>>} :
             /\ \A c \in ClosestLive(p) :
                  \E e \in Nearest(rti, p) : objects[e.obj] = c[1] /\ e.pt = get_pts(c[1])[c[2]]
             /\ \A e \in Nearest(rti, p) : objects[e.obj] \in Live

\* Of two objects with the same points one was removed, and nearest
\* returned the other at an end point they share.
C29_Witness ==
    /\ IsStorage /\ pc = "nearest"
    /\ \E i \in 1..Len(out) :
         /\ inp.flat[out[i]].coords = geo.coords
         /\ inp.flat[out[i]].id # geo.id
    /\ pt = <<2, 1>>

(***************************************************************************)
(*                             dwell_generator                             *)
(***************************************************************************)
DwellGenerated == call.fn = "dwell_generator" /\ ret.done

\* A dwell instruction, in either spelling
IsDwell(line) == line[1] \in {"G4 P{}", "G4 %d"}

IsSpindleStart(line) == line[1] \in {"M03", "M04"}

\* The lines that are not dwells come out as they went in.
OthersInOrder(in, o) ==
    SelectSeq(o, LAMBDA l : ~IsDwell(l)) = SelectSeq(in, LAMBDA l : ~IsDwell(l))

\* The input with the dwell line put after each spindle start and with the
\* dwell that followed a spindle start left out.
WithDwells(self, in) ==
    Flatten([k \in 1..Len(in) |->
                (IF IsDwell(in[k]) /\ k > 1 /\ IsSpindleStart(in[k - 1]) THEN <<>> ELSE << in[k] >>)
                \o (IF IsSpindleStart(in[k]) THEN << DwellLine(self) >> ELSE <<>>)])

\* C30: dwell_generator yields the lines of its input that are not dwells
\* in their order and, right after every spindle start (M03 or M04)
\* wherever it stands, exactly one line G4 P<dwelltime>; a G4 line that
\* follows a spindle start in the input is replaced, not kept beside it.
C30_OneDwellAfterEverySpindleStart ==
    DwellGenerated =>
        /\ OthersInOrder(call.lines, ret.lines)
        /\ ret.lines = WithDwells(call.self, call.lines)

\* What does hold: the order of the other lines always; the dwell after
\* each spindle start when every spindle start of the input is followed by
\* a line that is neither a spindle start nor a dwell spelled with P.
DwellAfterSeparatedSpindleStarts ==
    DwellGenerated =>
        /\ OthersInOrder(call.lines, ret.lines)
        /\ (\A k \in 1..Len(call.lines) :
              IsSpindleStart(call.lines[k]) =>
                  /\ k < Len(call.lines)
                  /\ ~IsSpindleStart(call.lines[k + 1])
                  /\ call.lines[k + 1][1] # "G4 P{}")
           => ret.lines = WithDwells(call.self, call.lines)

\* The input M03, G4 P1 came out as M03, G4 P1, G4 P1.
DwellDuplicatedReached ==
    /\ DwellGenerated /\ call.self.options.dwelltime = 1
    /\ call.lines = << Ln("M03", 0, 0), Ln("G4 P{}", 1, 0) >>
    /\ ret.lines = << Ln("M03", 0, 0), Ln("G4 P{}", 1, 0), Ln("G4 P{}", 1, 0) >>

\* A spindle start at the end of the input, and one right after another
\* spindle start, came out without a dwell after them.
DwellMissingReached ==
    /\ DwellGenerated
    /\ call.lines = << Ln("M03", 0, 0), Ln("M04", 0, 0), G00Z(1), Ln("M03", 0, 0) >>
    /\ ret.lines = << Ln("M03", 0, 0), DwellLine(call.self), Ln("M04", 0, 0), G00Z(1),
                      Ln("M03", 0, 0) >>

\* A dwell with a bare number after a spindle start was replaced.
DwellReplacedReached ==
    /\ DwellGenerated /\ call.self.options.dwelltime = 3
    /\ call.lines = << G00Z(1), Ln("M03", 0, 0), Ln("G4 %d", 2, 0), G00Z(1) >>
    /\ ret.lines = << G00Z(1), Ln("M03", 0, 0), Ln("G4 P{}", 3, 0), G00Z(1) >>

(***************************************************************************)
(*                    paint_connect: walking without a lift                *)
(***************************************************************************)
\* The corridor of tool width around the connector from a to b stays inside
\* the boundary: in halves of a unit, the box around the two discs of
\* diameter tooldia at a and at b lies in the rectangle.
CorridorInside(a, b) ==
    LET lo(i) == 2 * (IF a[i] < b[i] THEN a[i] ELSE b[i]) - inp.tooldia
        hi(i) == 2 * (IF a[i] < b[i] THEN b[i] ELSE a[i]) + inp.tooldia
    IN \A i \in 1..2 : 2 * inp.boundary[i] <= lo(i) /\ hi(i) <= 2 * inp.boundary[i + 2]

\* The connector from a to b is shorter than max_walk, ten tool diameters
\* when max_walk is not given.
ShortWalk(a, b) ==
    LET limit == IF inp.max_walk = None THEN 10 * inp.tooldia ELSE inp.max_walk
    IN Dist2(a, b) < limit * limit

\* One candidate was taken and treated.
CandidateTaken == op = "paint_connect" /\ pc = "loop" /\ pc' = "loop"

\* C31: in paint_connect the candidate is spliced onto the path in hand
\* without a lift only if the connector from the end of that path to the
\* matched end point, as a corridor of tool width, lies inside the boundary
\* and is shorter than max_walk (10 x tooldia when not given); otherwise the
\* path in hand is closed and a new path starts from the candidate.
C31_SplicedOnlyWhenWalkAllowed ==
    [][CandidateTaken =>
         /\ current_pt = Last(geo.coords)
         /\ IF CorridorInside(current_pt, pt') /\ ShortWalk(current_pt, pt')
              THEN /\ out' = out
                   /\ Len(geo'.coords) > Len(geo.coords)
                   /\ SubSeq(geo'.coords, 1, Len(geo.coords)) = geo.coords
                   /\ geo'.coords[Len(geo.coords) + 1] = pt'
              ELSE /\ out' = Append(out, geo)
                   /\ geo'.coords[1] = pt'
                   /\ \E k \in 1..Len(inp.flat) :
                        geo'.coords \in {inp.flat[k].coords, Reverse(inp.flat[k].coords)}]_vars

\* Three paths came out as two: one candidate was spliced, one needed a lift.
C31_Witness ==
    /\ op = "paint_connect" /\ pc = "done"
    /\ Len(inp.flat) = 3 /\ Len(out) = 2

(***************************************************************************)
(*               paint_connect: nothing lost, nothing twice                *)
(***************************************************************************)
Orders(n) == {p \in [1..n -> 1..n] : \A i, j \in 1..n : p[i] = p[j] => i = j}

RECURSIVE Laid(_, _, _)
\* The first n input segments in the order p laid end to end, the k-th
\* reversed when r[k].
Laid(p, r, n) ==
    IF n = 0 THEN <<>>
    ELSE Laid(p, r, n - 1)
           \o (IF r[n] THEN Reverse(inp.flat[p[n]].coords) ELSE inp.flat[p[n]].coords)

RECURSIVE PointsLaid(_, _)
\* How many points the first n input segments in the order p have.
PointsLaid(p, n) == IF n = 0 THEN 0 ELSE PointsLaid(p, n - 1) + Len(inp.flat[p[n]].coords)

RECURSIVE Joined(_)
\* The first k output paths laid end to end.
Joined(k) == IF k = 0 THEN <<>> ELSE Joined(k - 1) \o out[k].coords

PaintConnectReturned == op = "paint_connect" /\ pc = "done"

\* C32: when paint_connect returns, its output paths are the input segments,
\* each taken once, forward or reversed, and laid end to end in some order
\* with the last path in hand included; the input storage holds no object
\* and no index entry any more.
C32_SegmentsKeptOnceAndStorageEmptied ==
    PaintConnectReturned =>
        LET n == Len(inp.flat) IN
        /\ rti = {}
        /\ \A k \in 1..Len(objects) : objects[k] = NoObj
        /\ \A k \in 1..Len(out) : out[k].type = "LineString"
        /\ \E p \in Orders(n) :
             /\ \A k \in 1..Len(out) :
                  \E m \in 1..n : Len(Joined(k)) = PointsLaid(p, m)
             /\ \E r \in [1..n -> BOOLEAN] : Joined(Len(out)) = Laid(p, r, n)

\* Three segments came out as one path, one of them reversed.
C32_Witness ==
    /\ PaintConnectReturned
    /\ Len(inp.flat) = 3 /\ Len(out) = 1
    /\ \E k \in 1..3 :
         /\ inp.flat[k].coords # Reverse(inp.flat[k].coords)
         /\ \E i \in 0..Len(out[1].coords) :
              /\ i + Len(inp.flat[k].coords) <= Len(out[1].coords)
              /\ SubSeq(out[1].coords, i + 1, i + Len(inp.flat[k].coords))
                   = Reverse(inp.flat[k].coords)

(***************************************************************************)
(*           The chaining passes: where a segment is entered               *)
(***************************************************************************)
\* The coordinates of a segment entered at its end point p: reversed exactly
\* when p is its last point and not its first.
EnteredAt(coords, p) ==
    IF p = coords[Len(coords)] /\ p # coords[1] THEN Reverse(coords) ELSE coords

\* The object the step takes out of the storage.
TakenObj == objects[CHOOSE k \in 1..Len(objects) : objects[k] # NoObj /\ objects'[k] = NoObj]

\* paint_connect takes its first segment, the one nearest to the origin.
PaintFirstEntered ==
    (op = "paint_connect" /\ pc = "begin" /\ pc' = "loop") =>
        /\ geo'.coords = EnteredAt(TakenObj.coords, pt')
        /\ geo'.coords[1] = pt'

\* paint_connect takes a further segment: the run of points it adds to the
\* path in hand, or the new path in hand.
PaintNextEntered ==
    CandidateTaken =>
        LET run == IF out' = out
                     THEN SubSeq(geo'.coords, Len(geo.coords) + 1, Len(geo'.coords))
                     ELSE geo'.coords
        IN /\ run = EnteredAt(TakenObj.coords, pt')
           /\ run[1] = pt'

\* generate_from_geometry_2 takes a segment, the first one included, and
\* the first move it writes for the segment goes to the matched end point.
Geometry2Entered ==
    /\ (op = "generate_from_geometry_2" /\ pc = "path" /\ pc' # "path") =>
          /\ geo'.coords = EnteredAt(TakenObj.coords, pt)
          /\ geo'.coords[1] = pt
    /\ (op = "generate_from_geometry_2" /\ Len(gcode') > Len(gcode)
           /\ (pc = "path" \/ (pc = "pass" /\ depth = 0))) =>
          gcode'[Len(gcode) + 1] = G00XY(pt)

\* C33: in paint_connect and in generate_from_geometry_2 every segment taken
\* from the index, the first one found from the origin included, is
\* traversed from the end point the nearest-neighbour query matched: its
\* points are reversed exactly when that point is its last and not its first.
C33_EverySegmentEnteredAtMatchedEndpoint ==
    [][PaintFirstEntered /\ PaintNextEntered /\ Geometry2Entered]_vars

\* What does hold: every segment of generate_from_geometry_2 and every
\* segment of paint_connect but its first.
EnteredAtMatchedEndpointButPaintFirst ==
    [][PaintNextEntered /\ Geometry2Entered]_vars

\* paint_connect holds its first segment unreversed although the query from
\* the origin matched its last point.
PaintFirstFarEndReached ==
    /\ op = "paint_connect" /\ pc = "loop" /\ path_count = 0
    /\ pt = geo.coords[Len(geo.coords)] /\ pt # geo.coords[1]

\* generate_from_geometry_2 reversed its first segment.
Geometry2FirstReversedReached ==
    /\ op = "generate_from_geometry_2" /\ pc \in {"next", "pass"} /\ path_count = 1
    /\ geo.coords[1] = pt
    /\ \E k \in 1..Len(inp.flat) :
         /\ objects[k] = NoObj
         /\ inp.flat[k].coords = Reverse(geo.coords) /\ inp.flat[k].coords # geo.coords

(***************************************************************************)
(*              generate_from_geometry_2: multi-depth passes               *)
(***************************************************************************)
\* The method has returned, or an exception has left it.
Geometry2Ended == pc \in {"done", "StopIteration"}

\* C34: generate_from_geometry_2 in multi-depth mode with z_cut < 0 comes
\* to its end for every geometry, also when depthpercut is None, and then no
\* pass is made at a depth other than z_cut.
C34_MultiDepthTerminates ==
    /\ <>Geometry2Ended
    /\ [](inp.depthpercut = None /\ pc = "pass" /\ depth # 0 => depth = inp.z_cut)

\* What does hold: with depthpercut given and positive the method ends, and
\* the depth of the passes stays between z_cut and the surface.
MultiDepthTerminatesWithDepthPerCut ==
    /\ (inp.depthpercut # None) => <>Geometry2Ended
    /\ [](inp.depthpercut # None => depth \in inp.z_cut..0)

\* With depthpercut None the depth has risen above the surface and the loop
\* is still running.
DepthRisesReached ==
    /\ op = "generate_from_geometry_2" /\ inp.depthpercut = None
    /\ pc = "pass" /\ depth > 0

\* With depthpercut None a job of points only has ended.
PointsOnlyEndedReached ==
    /\ op = "generate_from_geometry_2" /\ inp.depthpercut = None
    /\ pc = "done" /\ path_count > 0

(***************************************************************************)
(*             G-code from geometry: rapids while the tool is down         *)
(***************************************************************************)
IsRapidXY(l) == l[1] \in {"G00 X%.4fY%.4f", "G00 X0Y0"}

IsMoveXY(l) == l[1] \in {"G00 X%.4fY%.4f", "G01 X%.4fY%.4f", "G00 X0Y0"}

IsMoveZ(l) == l[1] \in {"G00 Z%.4f", "G01 Z%.4f"}

TargetXY(l) == IF l[1] = "G00 X0Y0" THEN <<0, 0>> ELSE <<l[2], l[3]>>

\* The index of the last line before i for which P holds, 0 when none.
LastBefore(P(_), i) ==
    IF \E j \in 1..(i - 1) : P(gcode[j])
      THEN CHOOSE j \in 1..(i - 1) : P(gcode[j]) /\ \A m \in (j + 1)..(i - 1) : ~P(gcode[m])
      ELSE 0

\* The tool is below travel height when line i is reached.
ToolDownAt(i) ==
    LET j == LastBefore(IsMoveZ, i) IN j > 0 /\ gcode[j][2] < inp.z_move

\* Line i is a rapid in X/Y issued while the tool is down.
RapidWhileDown(i) == IsRapidXY(gcode[i]) /\ ToolDownAt(i)

\* C35: in the G-code generate_from_geometry_2 writes, in one pass or in
\* several, a G00 X/Y issued while the tool is below travel height goes to
\* the point where the tool already is.
C35_NoRapidTravelWhileToolDown ==
    (op = "generate_from_geometry_2") =>
        \A i \in 1..Len(gcode) :
            RapidWhileDown(i) =>
                LET j == LastBefore(IsMoveXY, i)
                IN j > 0 /\ TargetXY(gcode[j]) = TargetXY(gcode[i])

\* A path was cut in several passes: a later pass begins with a rapid while
\* the tool is down, right after a cutting move.
C35_Witness ==
    /\ op = "generate_from_geometry_2" /\ pc = "done" /\ inp.multidepth
    /\ \E i \in 1..Len(gcode) :
         /\ RapidWhileDown(i)
         /\ LET j == LastBefore(IsMoveXY, i) IN j > 0 /\ gcode[j][1] = "G01 X%.4fY%.4f"

(***************************************************************************)
(*        generate_from_geometry_2: where the next path is looked for      *)
(***************************************************************************)
\* The X/Y position the lines written so far leave the tool at: the origin
\* as long as no move in X/Y was written.
ToolXY ==
    LET j == LastBefore(IsMoveXY, Len(gcode) + 1)
    IN IF j = 0 THEN <<0, 0>> ELSE TargetXY(gcode[j])

\* A query was answered and its path not yet taken out of the index.
QueryAnswered == op = "generate_from_geometry_2" /\ pc = "path"

\* C36: every nearest-neighbour query of generate_from_geometry_2 is made
\* from the X/Y position the G-code written so far leaves the tool at, (0,0)
\* before the first path and the last X/Y target of the path just written
\* afterwards, in one pass and in any number of passes; the path it returns
\* is one with an end point nearest to that position.
C36_QueryFromToolPosition ==
    QueryAnswered =>
        /\ current_pt = ToolXY
        /\ path_count = 0 => current_pt = <<0, 0>>
        /\ \A e \in rti : Dist2(ToolXY, pt) <= Dist2(ToolXY, e.pt)

\* A path of distinct ends was cut in an even number of passes and the next
\* path was looked for from where the last pass ended.
C36_Witness ==
    /\ QueryAnswered /\ inp.multidepth /\ path_count = 1
    /\ inp.z_cut = -2 /\ inp.depthpercut = 1
    /\ \E k \in 1..Len(inp.flat) :
         /\ objects[k] = NoObj /\ inp.flat[k].type = "LineString"
         /\ current_pt \in {inp.flat[k].coords[1], Last(inp.flat[k].coords)}

(***************************************************************************)
(*                  Gerber: selecting a defined aperture                   *)
(***************************************************************************)
\* The integer an aperture number stands for, leading zeros or not.
ApertureNumber(token) == CASE token = "10" -> 10 [] token = "010" -> 10 [] OTHER -> -1

\* The last line read was D<n>, and an aperture of the same number is defined.
DefinedToolSelected ==
    /\ parser = "gerber" /\ hist.last.k = "tool"
    /\ \E a \in gerber.apertures : ApertureNumber(a) = ApertureNumber(hist.last.id)

\* C39: after %ADD<id>, a line D<n> with the same integer value as <id>,
\* written with or without leading zeros, selects that aperture and does
\* not abort the parse: the current aperture is then one of the table.
C39_DefinedApertureSelectable ==
    DefinedToolSelected =>
        /\ status # "raised"
        /\ gerber.current_aperture \in gerber.apertures

\* What does hold: the same for a D<n> written as the table has it, without
\* leading zeros, unless the path drawn before the selection is left
\* pending because it cannot be stroked.
DefinedApertureSelectableAsStored ==
    (DefinedToolSelected /\ hist.last.id \in gerber.apertures) =>
        /\ gerber.current_aperture \in gerber.apertures
        /\ status = "raised" =>
              /\ Len(gerber.path) > 1
              /\ gerber.last_path_aperture \notin gerber.apertures \/ HasNone(gerber.path)

\* D010 after %ADD10: the parse was aborted with KeyError.
LeadingZeroAbortsReached ==
    /\ DefinedToolSelected /\ hist.last.id = "010"
    /\ status = "raised" /\ raised.line = line_num

\* D10 after %ADD10, and a flash drawn with it.
StoredFormSelectedReached ==
    /\ parser = "gerber" /\ status = "parsing" /\ gerber.current_aperture = "10"
    /\ hist.last.k \in {"lin", "opcode"} /\ hist.last.d = 3
    /\ Len(gerber.poly_buffer) > 0

(***************************************************************************)
(*                 Gerber: one handler for every line                      *)
(***************************************************************************)
LinesParsed == call.fn = "parse_lines" /\ ret.done

\* The parser before the k-th of the lines tried, and after it.
ParserBefore(k) == IF k = 1 THEN ret.start ELSE ret.trace[k - 1]

ParserAfter(k) == ret.trace[k]

\* The handlers that ran for the k-th line.
HandlersOf(k) == Last(ParserAfter(k).handled)

DispatchOrder ==
    << "macro", "lin", "circ", "opcode", "quad", "regionon", "regionoff", "ad", "interp",
       "tool", "lpol", "fmt", "mode", "units", "absrel", "comment", "eof", "unrecognized" >>

\* The pattern of the handler matches the line.
PatternMatches(name, p, gline) ==
    CASE name = "macro" -> p.current_macro # NoMacro \/ am1_re(gline)
      [] name = "lin" -> lin_re(gline)
      [] name = "circ" -> circ_re(gline)
      [] name = "opcode" -> opcode_re(gline)
      [] name = "quad" -> quad_re(gline)
      [] name = "regionon" -> regionon_re(gline)
      [] name = "regionoff" -> regionoff_re(gline)
      [] name = "ad" -> ad_re(gline)
      [] name = "interp" -> interp_re(gline)
      [] name = "tool" -> tool_re(gline)
      [] name = "lpol" -> lpol_re(gline)
      [] name = "fmt" -> fmt_re(gline)
      [] name = "mode" -> mode_re(gline)
      [] name = "units" -> units_re(gline)
      [] name = "absrel" -> absrel_re(gline)
      [] name = "comment" -> comm_re(gline)
      [] name = "eof" -> eof_re(gline)
      [] OTHER -> TRUE

\* The first handler of the order whose pattern matches.
FirstMatching(p, gline) ==
    DispatchOrder[CHOOSE k \in 1..Len(DispatchOrder) :
                    /\ PatternMatches(DispatchOrder[k], p, gline)
                    /\ \A m \in 1..(k - 1) : ~PatternMatches(DispatchOrder[m], p, gline)]

\* While a macro is open the line changes nothing but the macro.
OnlyMacroChanged(k) ==
    [ParserAfter(k) EXCEPT !.aperture_macros = ParserBefore(k).aperture_macros,
                           !.current_macro = ParserBefore(k).current_macro,
                           !.handled = ParserBefore(k).handled] = ParserBefore(k)

\* The line is an arc in single-quadrant mode for which no centre is accepted.
InvalidArc(k) ==
    /\ HandlersOf(k)[1] = "circ"
    /\ [msg |-> "Invalid arc", line |-> Len(call.before) + k] \in ParserAfter(k).log

\* C37: every line parse_lines reads is handled by exactly one handler, the
\* first whose pattern matches in the order macro, linear move or flash,
\* arc, bare operation code, quadrant mode, region start, region end,
\* aperture definition, bare interpolation mode, tool select, polarity,
\* number format, mode, units, absolute/incremental, comment, end of file,
\* unrecognized; while an aperture macro is open the line is taken as macro
\* text and no other parser state changes.
C37_OneHandlerPerLineInOrder ==
    LinesParsed =>
        \A k \in 1..Len(ret.trace) :
            /\ HandlersOf(k) = << FirstMatching(ParserBefore(k), call.glines[k]) >>
            /\ ParserBefore(k).current_macro # NoMacro => OnlyMacroChanged(k)

\* What does hold: the same for every line but an arc for which no centre
\* is accepted, which the arc handler and then the handler of unrecognized
\* lines take.
OneHandlerPerLineButInvalidArc ==
    LinesParsed =>
        \A k \in 1..Len(ret.trace) :
            /\ HandlersOf(k)[1] = FirstMatching(ParserBefore(k), call.glines[k])
            /\ IF InvalidArc(k) THEN HandlersOf(k) = << "circ", "unrecognized" >>
                                ELSE Len(HandlersOf(k)) = 1
            /\ ParserBefore(k).current_macro # NoMacro => OnlyMacroChanged(k)

\* An arc without an acceptable centre was warned about twice: "Invalid arc"
\* and "Line ignored".
InvalidArcHandledTwiceReached ==
    /\ LinesParsed
    /\ \E k \in 1..Len(ret.trace) :
         /\ InvalidArc(k)
         /\ [msg |-> "Line ignored", line |-> Len(call.before) + k] \in ParserAfter(k).log

\* A coordinate line read while a macro was open went into the macro.
MacroTextConsumedReached ==
    /\ LinesParsed
    /\ \E k \in 1..Len(ret.trace) :
         /\ ParserBefore(k).current_macro # NoMacro
         /\ lin_re(call.glines[k])
         /\ HandlersOf(k) = << "macro" >>

(***************************************************************************)
(*               Gerber: the centre of a single-quadrant arc               *)
(***************************************************************************)
\* The k-th line is an arc drawn in single-quadrant mode from a known
\* point: the loop over center_candidates runs for it.
CentreSought(k) ==
    /\ HandlersOf(k)[1] = "circ"
    /\ ParserBefore(k).quadrant_mode = "SINGLE"
    /\ ParserAfter(k).current_interpolation_mode \in {2, 3}
    /\ ParserAfter(k).g.current_operation_code = 1
    /\ None \notin {ParserBefore(k).g.current_x, ParserBefore(k).g.current_y}

ArcFrom(k) == << ParserBefore(k).g.current_x, ParserBefore(k).g.current_y >>

ArcTo(k) ==
    LET x == Captured(call.glines[k], "X")
        y == Captured(call.glines[k], "Y")
    IN << IF x # None THEN x ELSE ArcFrom(k)[1], IF y # None THEN y ELSE ArcFrom(k)[2] >>

ArcOffset(k) ==
    LET i == Captured(call.glines[k], "I")
        j == Captured(call.glines[k], "J")
    IN << IF i # None THEN i ELSE 0, IF j # None THEN j ELSE 0 >>

SignsTried == << <<1, 1>>, <<-1, 1>>, <<1, -1>>, <<-1, -1>> >>

\* The c-th centre in the order [+,+], [-,+], [+,-], [-,-].
CentreTried(k, c) ==
    << ArcFrom(k)[1] + SignsTried[c][1] * ArcOffset(k)[1],
       ArcFrom(k)[2] + SignsTried[c][2] * ArcOffset(k)[2] >>

\* The centres whose radii agree and whose angle is a quarter turn at most.
ValidCentres(k) ==
    { c \in 1..4 :
        /\ RadiusAgrees(CentreTried(k, c), ArcTo(k), ArcOffset(k)[1], ArcOffset(k)[2])
        /\ QuarterTurn(CentreTried(k, c), ArcFrom(k), ArcTo(k),
                       ParserAfter(k).current_interpolation_mode) }

FirstValidCentre(k) ==
    CentreTried(k, CHOOSE c \in ValidCentres(k) : \A d \in ValidCentres(k) : c <= d)

PathAndPointKept(k) ==
    /\ ParserAfter(k).g.path = ParserBefore(k).g.path
    /\ ParserAfter(k).g.current_x = ParserBefore(k).g.current_x
    /\ ParserAfter(k).g.current_y = ParserBefore(k).g.current_y

\* C38: in single-quadrant mode the first of the centres [+,+], [-,+],
\* [+,-], [-,-] whose radii agree within 5% and whose angle in the commanded
\* direction is at most 90 degrees is used for the arc, which is appended to
\* the path and ends at the commanded point; with no such centre the path
\* and the current point stay as they were.
C38_FirstValidCentreUsed ==
    LinesParsed =>
        \A k \in 1..Len(ret.trace) :
            CentreSought(k) =>
                IF ValidCentres(k) # {}
                  THEN /\ ParserAfter(k).exc = "none"
                       /\ ParserAfter(k).arc = Append(ParserBefore(k).arc, FirstValidCentre(k))
                       /\ Len(ParserAfter(k).g.path) > Len(ParserBefore(k).g.path)
                       /\ Last(ParserAfter(k).g.path) = ArcTo(k)
                       /\ << ParserAfter(k).g.current_x, ParserAfter(k).g.current_y >> = ArcTo(k)
                  ELSE /\ PathAndPointKept(k)
                       /\ ParserAfter(k).arc = ParserBefore(k).arc

\* What does hold: arc() is called with the first valid centre and raises,
\* so that the path and the current point stay as they were either way.
FirstValidCentreChosenThenRaises ==
    LinesParsed =>
        \A k \in 1..Len(ret.trace) :
            CentreSought(k) =>
                /\ PathAndPointKept(k)
                /\ IF ValidCentres(k) # {}
                     THEN /\ ParserAfter(k).exc = "NameError"
                          /\ ParserAfter(k).arc = Append(ParserBefore(k).arc, FirstValidCentre(k))
                     ELSE /\ ParserAfter(k).exc = "none"
                          /\ ParserAfter(k).arc = ParserBefore(k).arc

\* The first centre was turned down and the second one was chosen.
SecondCentreChosenReached ==
    /\ LinesParsed
    /\ \E k \in 1..Len(ret.trace) :
         /\ CentreSought(k)
         /\ ValidCentres(k) # {}
         /\ 1 \notin ValidCentres(k)
         /\ Last(ParserAfter(k).arc) = CentreTried(k, 2)

\* No centre was valid.
NoValidCentreReached ==
    /\ LinesParsed
    /\ \E k \in 1..Len(ret.trace) : CentreSought(k) /\ ValidCentres(k) = {}

(***************************************************************************)
(*                     clear_polygon: the shrinking                        *)
(***************************************************************************)
ClearEnded ==
    clearing.pc \in {"done", "StopIteration", "IndexError", "AttributeError"}

\* The inset of the k-th buffered polygon: half the tool, then k steps.
InsetOf(k) == clearing.tooldia \div 2 + k * Step(clearing.tooldia, clearing.overlap)

\* The k-th buffered polygon of the call.
Intermediate(k) == [inset |-> InsetOf(k), pieces |-> AllPieces(clearing.polygon, InsetOf(k))]

\* Every ring of the boundary of the polygon is in geoms.
BoundaryAdded(current) ==
    \A k \in 1..Len(current.pieces) :
        \A i \in 0..current.pieces[k].interiors :
            \E n \in 1..Len(clearing.geoms) :
                clearing.geoms[n] = BoundaryRing(current.inset, k, i)

ThinPolygonRaisesReached ==
    clearing.pc = "IndexError" /\ clearing.current.inset = clearing.tooldia \div 2

\* Several pieces were left and shapely did not iterate over them.
PiecesNotIteratedReached == clearing.pc = "AttributeError" /\ ~clearing.iterable

====
